---- MODULE Spec2Model ----
(***************************************************************************)
(* Model of the velox-orchestrator control plane: the deployment engine    *)
(* (src/src/deployment/engine.py), the durable registry tables it writes   *)
(* (src/src/core/registry_sql.py), the container runtime it drives and the *)
(* Docker provider (src/src/discovery/docker_provider.py) that turns       *)
(* container events into routes.                                           *)
(*                                                                         *)
(* The process is one asyncio event loop: every `await` is a point where   *)
(* another request handler or task may run.  Each action below is the code *)
(* between two such points.                                                *)
(***************************************************************************)
EXTENDS Integers, Sequences, FiniteSets, TLC

VARIABLES
    apps,          \* applications table: app id -> row
    deployments,   \* deployments table: app id -> version -> row
    routes,        \* routes table: route id -> row
    containers,    \* container runtime: container id -> state
    events,        \* runtime event stream not yet consumed by the provider
    tasks,         \* deploy()/rollback() invocations and their _run_deploy tasks
    nextTask,      \* next free invocation handle
    plan,          \* the deploy_from_config call in progress
    cache,         \* hot cache: config:version and the route index sets
    last_call,     \* the most recent set_route/delete_route call of the REST surface
    repos,         \* git_repos table (one registered repository)
    hook,          \* webhook deliveries: the last one, its answer, what it triggered
    projects,      \* projects table (one project) and the DELETE /projects call on it
    acme,          \* obtain_certificate for one domain: its position, the challenge
                   \* store, the domain's .crt and .key files and Certificate record
    handles,       \* DeploymentEngine._tasks and whether stop() has been called
    resolved,      \* a call of _resolve_deploy_order: its argument and what it returned
    mirror,        \* the registry's container mirror (_containers): the ids it holds
    docker_provider, \* DockerProvider: where start() is, and sync_all's list
    event_bus,      \* EventBus._handlers and one emit call
    loops,          \* the background loops: where each is
    hot,            \* hot cache: the routes:{id} and upstreams:{id} keys
    registry_calls, \* set_route/delete_route calls, step by step
    nonces,         \* ACMEClient._nonce and the signed requests in flight
    deliveries     \* webhook deliveries being handled, step by step

\* what only the start-up, event-bus, loop and cache-mirror steps write
rest_vars == <<docker_provider, event_bus, loops, hot, registry_calls, nonces, deliveries>>

\* the variables of this group other than docker_provider
provider_rest == <<event_bus, loops, hot, registry_calls, nonces, deliveries>>

\* the variables of this group other than event_bus
bus_rest == <<docker_provider, loops, hot, registry_calls, nonces, deliveries>>

\* the variables of this group other than loops
loops_rest == <<docker_provider, event_bus, hot, registry_calls, nonces, deliveries>>

\* the variables of this group other than hot and registry_calls
registry_rest == <<docker_provider, event_bus, loops, nonces, deliveries>>

\* the variables of this group other than nonces
nonces_rest == <<docker_provider, event_bus, loops, hot, registry_calls, deliveries>>

\* the variables of this group other than deliveries
deliveries_rest == <<docker_provider, event_bus, loops, hot, registry_calls, nonces>>

vars == <<apps, deployments, routes, containers, events, tasks, nextTask, plan, cache,
          last_call, repos, hook, projects, acme, handles, resolved, mirror, rest_vars>>

\* what the deploy steps, the /routes handlers and the webhook handlers never write
side_vars == <<projects, acme, handles, resolved, mirror, rest_vars>>

\* what the deployment engine, the runtime and the provider read and write
engine_vars == <<apps, deployments, containers, events, tasks, nextTask, plan>>

----------------------------------------------------------------------------
(* Bounds and inputs *)

\* number of deploy()/rollback() invocations in one behaviour
MaxTasks == 2

Tasks == 1..MaxTasks

\* number of runtime events the provider may lag behind
MaxEvents == 2

\* number of invocations in flight at once
MaxInFlight == 2

\* number of set_route/delete_route calls through the REST surface
MaxRouteCalls == 3

\* number of webhook deliveries
MaxDeliveries == 2

\* number of Deployment rows an application has before the first modelled call
MaxHistory == 11

\* number of obtain_certificate calls for the domain
MaxIssuances == 2

Apps == {"a", "b"}

\* the application the operator creates through POST /applications; "b" comes
\* into being through a manifest
ApiApps == {"a"}

\* Application.replicas of the two services
Replicas(a) == IF a = "a" THEN 2 ELSE 1

\* Application.source of the two services
Source(a) == IF a = "a" THEN "image" ELSE "git"

\* Application.healthcheck is set for "a" and absent for "b"
HasHealthcheck(a) == a = "a"

\* Application.domain: every service has a host name
Domain(a) == a

\* get_app_deployments(app_id, limit=10)
DeployHistoryLimit == 10

\* replica indices: as many as the largest Application.replicas
ReplicaIdx == 0..(Replicas("a") - 1)

\* a container id: the invocation that created it and its replica index
Cids == Tasks \X ReplicaIdx

NoImage == [kind |-> "none", v |-> 0]
DeclaredImage == [kind |-> "declared", v |-> 0]
BuiltImage(v) == [kind |-> "built", v |-> v]

----------------------------------------------------------------------------
(* Registry rows *)

NoApp == [exists |-> FALSE, status |-> "none", container_ids |-> {}, image |-> NoImage]

\* Application(...) as the REST surface and _build_apps construct it
FreshApp == [exists |-> TRUE, status |-> "pending", container_ids |-> {}, image |-> DeclaredImage]

NoDeployment == [status |-> "none", image |-> NoImage, container_ids |-> {}, logs |-> FALSE]

NoRoute == [exists |-> FALSE, host |-> "", enabled |-> FALSE, upstreams |-> {}]

AppRouteId(a) == [kind |-> "app", app |-> a, cid |-> <<0, 0>>]
CtrRouteId(c, a) == [kind |-> "ctr", app |-> a, cid |-> c]
\* a route the operator creates through POST /routes
ManualRouteId == [kind |-> "manual", app |-> "a", cid |-> <<0, 0>>]
RouteIds == {AppRouteId(a) : a \in Apps} \cup {CtrRouteId(c, a) : c \in Cids, a \in Apps}
                \cup {ManualRouteId}

\* version numbers a row can carry in the model
Versions == 0..(MaxHistory + MaxTasks)

ExistingVersions(a) == {v \in Versions : deployments[a][v].status # "none"}

Max(S) == CHOOSE x \in S : \A y \in S : y <= x

\* an allocation that skips a number
get_next_deployment_version_skipping(a) ==
    IF ExistingVersions(a) = {} THEN 1 ELSE Max(ExistingVersions(a)) + 2

\* the highest version of the application's rows plus one, 1 when it has none
get_next_deployment_version(a) ==
    IF ExistingVersions(a) = {} THEN 1 ELSE Max(ExistingVersions(a)) + 1

\* set_deployment upserts the whole row under the id "{app}-v{version}"
set_deployment(a, v, row) ==
    deployments' = [deployments EXCEPT ![a][v] = row]

set_application(a, row) ==
    apps' = [apps EXCEPT ![a] = row]

\* get_routes_by_host: the rows of a virtual host, with their ids
HostRoutes(h) ==
    {[id |-> r, row |-> routes[r]] : r \in {x \in RouteIds : routes[x].exists /\ routes[x].host = h}}

NoRepo == [exists |-> FALSE, webhook_secret |-> "", enabled |-> FALSE,
           last_commit |-> "", last_deploy_at |-> 0]

\* no delivery received yet
\* the files and the record of a domain: the issuance each comes from, 0 for none
NoCertificate == [cert_file |-> 0, key_file |-> 0, record |-> 0]

\* no obtain_certificate call made yet
NoIssuance == [pc |-> "idle", n |-> 0, polls |-> 0, challenges |-> {}, outcome |-> "none",
               now |-> NoCertificate, pre |-> NoCertificate]

\* _resolve_deploy_order not called
NoResolve == [input |-> [services |-> <<>>, depends_on |-> <<>>], order |-> <<>>, done |-> FALSE]

\* _tasks is empty and stop() has not been called; at_stop are the
\* _run_deploy tasks that were running when stop() was called
NoHandles == [map |-> {}, stopped |-> FALSE, at_stop |-> {}]

\* the project every application of the model belongs to, no DELETE issued
TheProject == [exists |-> TRUE, del |-> "idle", app |-> NoApp]

\* the provider after start(): the list sync is over and _watch_events is
\* subscribed to the runtime's event stream; listed are the containers of
\* sync_all's list it has not processed yet
Subscribed == [pc |-> "watching", listed |-> {}]

\* the provider before start()
NotStarted == [pc |-> "start", listed |-> {}]

\* the event names of the process
EventNames == {"webhook_received", "routes_updated", "deploy_completed"}

\* EventBus(): no handler registered, emit not called.  In an emit call, name
\* is its event, i the position of its loop in the handler list, invoked the
\* handlers it has called, raised_at the positions whose handler raised, and
\* listed the handler list as the call left it
NoBus == [handlers |-> [e \in EventNames |-> <<>>], name |-> "none", i |-> 0,
          invoked |-> <<>>, raised_at |-> {}, listed |-> <<>>, result |-> "none"]

\* the background loops: the provider's _watch_events, HealthChecker._run and
\* CertRenewalTask._run
Loops == {"watch_events", "health_check", "cert_renewal"}

\* a loop after start(): at the top of its `while self.running`, no iteration
\* has raised; resumed records that an iteration came to its end after one
\* that raised
StartedLoop == [pc |-> "iterate", running |-> TRUE, raised |-> FALSE, resumed |-> FALSE]

\* hot-cache keys of one route id, both absent: routes:{id} holds the encoded
\* Route, upstreams:{id} the list of its upstreams
NoKeys == [route |-> NoRoute, upstreams |-> {}]

\* a set_route or delete_route call not made yet.  A call in progress is
\* "committed" between its durable commit and its hot-cache pipeline;
\* rowcount is what the DELETE statement reported
NoRegistryCall == [pc |-> "idle", op |-> "none", id |-> ManualRouteId, row |-> NoRoute,
                   rowcount |-> 0]

\* number of signed ACME requests
MaxSignedRequests == 4

\* a _signed_request call not made yet; nonce is the Replay-Nonce it signs
\* with (0: none yet), source where _get_nonce took it from
NoSignedRequest == [pc |-> "idle", nonce |-> 0, source |-> "none"]

\* ACMEClient after __init__: _nonce is None (0 here); issued counts the
\* nonces the server has handed out (each is a new number); used[n] is the
\* number of signed requests that carried nonce n
NoNonces == [cached |-> 0, issued |-> 0,
             used |-> [n \in 1..(2 * MaxSignedRequests) |-> 0],
             requests |-> [r \in 1..MaxSignedRequests |-> NoSignedRequest]]

\* a webhook delivery not received yet; seen is the GitRepo.last_commit of the
\* object get_git_repo_by_url returned to its handler
NoDelivery == [pc |-> "idle", commit |-> "", seen |-> "", answer |-> "none", emitted |-> 0]

NoHook == [n |-> 0, provider |-> "none", url |-> "", commit |-> "", credential |-> "",
           answer |-> "none", emitted |-> 0, repo_tasks |-> 0]

\* no registry call made yet
NoCall == [n |-> 0, op |-> "none", id |-> ManualRouteId, row |-> NoRoute,
           before |-> 0, existed |-> FALSE]

----------------------------------------------------------------------------
(* Invocation records.  snap is the Application object the invocation was  *)
(* handed; pre and pre_routes record the Application row and the host's    *)
(* routes as the request found them; healthy_ids are the replicas whose    *)
(* check returned 0 in the round that ended _wait_for_healthy.             *)

IdleTask == [pc |-> "idle", app |-> "a", via |-> "none", version |-> 0, target |-> 0,
             snap |-> NoApp, pre |-> NoApp, pre_routes |-> {}, cfg |-> 0,
             image |-> NoImage, i |-> 0, healthy_ids |-> {},
             run_ids |-> {}, new_container_ids |-> {}, old_container_ids |-> {}]

Init ==
    /\ apps = [a \in Apps |-> NoApp]
    /\ deployments = [a \in Apps |-> [v \in Versions |-> NoDeployment]]
    /\ routes = [r \in RouteIds |-> NoRoute]
    /\ containers = [c \in Cids |-> "none"]
    /\ events = <<>>
    /\ tasks = [t \in Tasks |-> IdleTask]
    /\ nextTask = 1
    /\ plan = [cfg |-> 0, order |-> <<>>, cur |-> 0]
    /\ cache = [version |-> 0, host |-> {}, enabled |-> {}]
    /\ last_call = NoCall
    /\ repos = NoRepo
    /\ hook = NoHook
    /\ projects = TheProject
    /\ acme = NoIssuance
    /\ handles = NoHandles
    /\ resolved = NoResolve
    /\ mirror = {}
    /\ docker_provider = Subscribed
    /\ event_bus = NoBus
    /\ loops = [l \in Loops |-> StartedLoop]
    /\ hot = [r \in RouteIds |-> NoKeys]
    /\ registry_calls = [call \in 1..MaxRouteCalls |-> NoRegistryCall]
    /\ nonces = NoNonces
    /\ deliveries = [d \in 1..MaxDeliveries |-> NoDelivery]

----------------------------------------------------------------------------
(* Container runtime *)

\* the container exists in the runtime (running, or created/exited and holding its name)
Live(c) == containers[c] \in {"created", "running", "exited"}

\* the replica indices of a container list, in list order
RECURSIVE CidSeq(_)
CidSeq(S) ==
    IF S = {} THEN <<>>
    ELSE LET c == CHOOSE x \in S : \A y \in S : x[1] < y[1] \/ (x[1] = y[1] /\ x[2] <= y[2])
         IN  <<c>> \o CidSeq(S \ {c})

\* the name _run_containers gives replica i: "{app.id}-{suffix}[-{i}]"; deploy
\* passes suffix "v{version}", rollback passes none (suffix 0 here)
ContainerName(t, i) ==
    [app |-> tasks[t].app,
     suffix |-> IF tasks[t].via = "rollback" THEN 0 ELSE tasks[t].version,
     idx |-> IF Replicas(tasks[t].app) > 1 THEN i ELSE -1]

\* the runtime refuses to create a container under a name that is in use
NameInUse(t, i) ==
    \E c \in Cids : Live(c) /\ ContainerName(c[1], c[2]) = ContainerName(t, i)

RECURSIVE DieEvents(_)
DieEvents(s) ==
    IF s = <<>> THEN <<>>
    ELSE (IF containers[Head(s)] = "running" THEN <<[action |-> "die", cid |-> Head(s)]>> ELSE <<>>)
         \o DieEvents(Tail(s))

\* _stop_containers: stop (5 s grace) and force-delete each container; a
\* container that no longer exists only logs a warning
\* room in the modelled event stream for the events stopping ids produces
CanEmit(ids) == Len(events) + Len(DieEvents(CidSeq(ids))) <= MaxEvents

stop_containers(ids) ==
    /\ containers' = [c \in Cids |-> IF c \in ids /\ Live(c) THEN "removed" ELSE containers[c]]
    /\ events' = events \o DieEvents(CidSeq(ids))

\* a container stops on its own (crash, OOM kill, `docker stop` by the
\* operator): the runtime keeps it as exited and emits "die"
container_dies(c) ==
    /\ containers[c] = "running"
    /\ Len(events) < MaxEvents
    /\ containers' = [containers EXCEPT ![c] = "exited"]
    /\ events' = Append(events, [action |-> "die", cid |-> c])
    /\ UNCHANGED <<apps, deployments, routes, cache, tasks, nextTask, plan, last_call, repos, hook, side_vars>>

----------------------------------------------------------------------------
(* Registry: routes *)

\* set_route without the INCR
set_route_unversioned(id, row) ==
    /\ routes' = [routes EXCEPT ![id] = row]
    /\ cache' = [version |-> cache.version,
                 host |-> cache.host \cup {<<row.host, id>>},
                 enabled |-> IF row.enabled THEN cache.enabled \cup {id}
                                            ELSE cache.enabled \ {id}]

\* set_route: upsert the row, then mirror it into the hot cache: add the id
\* to the set of its host, add it to or remove it from the enabled set,
\* INCR config:version
set_route(id, row) ==
    /\ routes' = [routes EXCEPT ![id] = row]
    /\ cache' = [version |-> cache.version + 1,
                 host |-> cache.host \cup {<<row.host, id>>},
                 enabled |-> IF row.enabled THEN cache.enabled \cup {id}
                                            ELSE cache.enabled \ {id}]

\* delete_route for each id: delete the row; when a row was deleted, drop the
\* cached route and upstreams keys and INCR config:version (the index sets are
\* not touched)
delete_routes(ids) ==
    /\ routes' = [r \in RouteIds |-> IF r \in ids THEN NoRoute ELSE routes[r]]
    /\ cache' = [cache EXCEPT !.version = @ + Cardinality({r \in ids : routes[r].exists})]

\* the host label _run_containers writes; every domain of the model contains a dot
LabelHost(a) == Domain(a)

----------------------------------------------------------------------------
(* REST surface: /routes.  The registry does not know its caller: the ids   *)
(* written here are a manual route, the engine's "app-{id}" and a provider  *)
(* route.                                                                   *)

Hosts == {Domain(a) : a \in Apps}

ApiRouteIds == {ManualRouteId, AppRouteId("a"), CtrRouteId(<<1, 0>>, "a")}

\* the call the handler makes, with config:version and the row's existence as
\* the call found them
Called(op, id, row) ==
    last_call' = [n |-> last_call.n + 1, op |-> op, id |-> id, row |-> row,
                  before |-> cache.version, existed |-> routes[id].exists]

\* POST /routes: a Route built from the body (enabled by default), set_route
routes_create(id, h) ==
    /\ last_call.n < MaxRouteCalls
    /\ LET row == [exists |-> TRUE, host |-> h, enabled |-> TRUE, upstreams |-> {}]
       IN  set_route(id, row) /\ Called("set", id, row)
    /\ UNCHANGED <<engine_vars, repos, hook, side_vars>>

\* PUT /routes/{id}: get_route (404 when missing), replace the given fields,
\* set_route
routes_update(id, h, e) ==
    /\ last_call.n < MaxRouteCalls
    /\ routes[id].exists
    /\ LET row == [routes[id] EXCEPT !.host = h, !.enabled = e]
       IN  set_route(id, row) /\ Called("set", id, row)
    /\ UNCHANGED <<engine_vars, repos, hook, side_vars>>

\* DELETE /routes/{id}: delete_route (404 when nothing was deleted)
routes_delete(id) ==
    /\ last_call.n < MaxRouteCalls
    /\ delete_routes({id})
    /\ Called("delete", id, NoRoute)
    /\ UNCHANGED <<engine_vars, repos, hook, side_vars>>

RouteNext ==
    \/ \E id \in ApiRouteIds, h \in Hosts : routes_create(id, h)
    \/ \E id \in ApiRouteIds, h \in Hosts, e \in BOOLEAN : routes_update(id, h, e)
    \/ \E id \in ApiRouteIds : routes_delete(id)

RouteSpec == Init /\ [][RouteNext]_vars

----------------------------------------------------------------------------
(* Git repositories and webhooks *)

\* the clone URL of the registered repository; its branch is the pushed one
RepoUrl == "U"

\* repository URLs a payload can carry; "" is a payload without one
Urls == {RepoUrl, "X", ""}

\* commit ids a payload can carry; "" is a payload without `after`
Commits == {"", "c1", "c2"}

Secrets == {"", "s"}

\* the git-repo methods of the registry object the process constructs
\* (RegistrySQL); get_git_repo_by_url, update_git_repo_commit and
\* delete_git_repo are defined on the Redis Registry class only
RegistryMethods == {"set_git_repo", "get_git_repo", "get_all_git_repos"}

\* what a delivery carries to prove its origin: nothing, a GitLab token, or
\* "sha256=" + HMAC-SHA256(key, body), body being the raw request bytes for
\* the sender and str(payload).encode() for the handler
NoCredential == [kind |-> "none", key |-> "", body |-> "none"]
Token(secret) == [kind |-> "token", key |-> secret, body |-> "none"]
Hmac(secret, body) == [kind |-> "sha256", key |-> secret, body |-> body]

GithubHeaders == {NoCredential} \cup {Hmac(k, "raw") : k \in {"s", "x"}}
GitlabTokens == {NoCredential} \cup {Token(k) : k \in {"s", "x"}}

\* POST /repos
create_repo(secret) ==
    /\ ~repos.exists
    /\ repos' = [exists |-> TRUE, webhook_secret |-> secret, enabled |-> TRUE,
                 last_commit |-> "", last_deploy_at |-> 0]
    /\ UNCHANGED <<engine_vars, routes, cache, last_call, hook, side_vars>>

\* PUT /repos/{id}
update_repo(secret, enabled) ==
    /\ repos.exists
    /\ repos' = [repos EXCEPT !.webhook_secret = secret, !.enabled = enabled]
    /\ UNCHANGED <<engine_vars, routes, cache, last_call, hook, side_vars>>

verify_github_signature(body, signature, secret) ==
    IF signature = NoCredential \/ secret = ""
    THEN secret = ""
    ELSE Hmac(secret, body) = signature

verify_gitlab_token(token, secret) ==
    IF secret = "" THEN TRUE ELSE token = Token(secret)

\* what a handler returns and does: its answer, the git_repos table after it,
\* the webhook_received events emitted, the deploy_from_repo tasks created
Answer(a) == [answer |-> a, repos |-> repos, emitted |-> 0, repo_tasks |-> 0]

\* _on_webhook: get_git_repo, then create_task(deploy_from_repo(repo))
on_webhook(table) == IF table.exists THEN 1 ELSE 0

\* _trigger_deploy
trigger_deploy(commit, now) ==
    IF repos.last_commit = commit THEN Answer("ignored")
    ELSE IF "update_git_repo_commit" \notin RegistryMethods THEN Answer("raised")
    ELSE LET updated == [repos EXCEPT !.last_commit = commit, !.last_deploy_at = now]
         IN  [answer |-> "accepted", repos |-> updated, emitted |-> 1,
              repo_tasks |-> on_webhook(updated)]

\* the lookup the three handlers share: missing url, get_git_repo_by_url,
\* not registered, disabled
find_repo(url) ==
    IF url = "" THEN "ignored"
    ELSE IF "get_git_repo_by_url" \notin RegistryMethods THEN "raised"
    ELSE IF ~repos.exists \/ url # RepoUrl THEN "ignored"
    ELSE IF ~repos.enabled THEN "ignored"
    ELSE "found"

handle_github(url, commit, signature, now) ==
    IF find_repo(url) # "found" THEN Answer(find_repo(url))
    ELSE IF ~verify_github_signature("str", signature, repos.webhook_secret)
         THEN Answer("error")
         ELSE trigger_deploy(commit, now)

handle_gitlab(url, commit, token, now) ==
    IF find_repo(url) # "found" THEN Answer(find_repo(url))
    ELSE IF ~verify_gitlab_token(token, repos.webhook_secret)
         THEN Answer("error")
         ELSE trigger_deploy(commit, now)

handle_gitea(url, commit, now) ==
    IF find_repo(url) # "found" THEN Answer(find_repo(url))
    ELSE trigger_deploy(commit, now)

\* a delivery is answered: the table and the counters take the handler's result
Delivered(provider, url, commit, credential, r) ==
    /\ repos' = r.repos
    /\ hook' = [n |-> hook.n + 1, provider |-> provider, url |-> url,
                commit |-> commit, credential |-> credential, answer |-> r.answer,
                emitted |-> hook.emitted + r.emitted,
                repo_tasks |-> hook.repo_tasks + r.repo_tasks]
    /\ UNCHANGED <<engine_vars, routes, cache, last_call, side_vars>>

\* POST /webhook/github: the controller hands the handler signature = ""
github_webhook(url, commit, header) ==
    /\ hook.n < MaxDeliveries
    /\ Delivered("github", url, commit, header,
                 handle_github(url, commit, NoCredential, hook.n + 1))

\* POST /webhook/gitlab: the controller hands the handler token = ""
gitlab_webhook(url, commit, token) ==
    /\ hook.n < MaxDeliveries
    /\ Delivered("gitlab", url, commit, token,
                 handle_gitlab(url, commit, NoCredential, hook.n + 1))

\* POST /webhook/gitea
gitea_webhook(url, commit) ==
    /\ hook.n < MaxDeliveries
    /\ Delivered("gitea", url, commit, NoCredential,
                 handle_gitea(url, commit, hook.n + 1))

WebhookNext ==
    \/ \E k \in Secrets : create_repo(k)
    \/ \E k \in Secrets, e \in BOOLEAN : update_repo(k, e)
    \/ \E u \in Urls, c \in Commits, h \in GithubHeaders : github_webhook(u, c, h)
    \/ \E u \in Urls, c \in Commits, k \in GitlabTokens : gitlab_webhook(u, c, k)
    \/ \E u \in Urls, c \in Commits : gitea_webhook(u, c)

WebhookSpec == Init /\ [][WebhookNext]_vars

----------------------------------------------------------------------------
(* DeploymentEngine._tasks: deployment id -> task handle *)

\* Deployment.id is "{app.id}-v{version}"
DeployId(t) == <<tasks[t].app, tasks[t].version>>

\* self._tasks[deploy.id] = task: a handle already stored under the id is replaced
register(map, id, t) == {h \in map : h.id # id} \cup {[id |-> id, task |-> t]}

\* self._tasks.pop(deploy.id, None)
pop(map, id) == {h \in map : h.id # id}

\* the `finally` of _run_deploy
run_deploy_finally(t) == handles' = [handles EXCEPT !.map = pop(@, DeployId(t))]

\* the positions inside _run_deploy
RunDeployPcs == {"building", "run", "health", "cutover", "route", "stop_old", "fail"}

RunningDeploy(t) == tasks[t].via \in {"api", "config"} /\ tasks[t].pc \in RunDeployPcs

----------------------------------------------------------------------------
(* Foreign keys.  The tables are created with their constraints: a          *)
(* Deployment row needs its Application row, an Application row needs its   *)
(* Project row.                                                             *)

\* the next registry write of the invocation is set_deployment
WritesDeployment(t) ==
    tasks[t].pc \in {"write", "building", "cutover", "fail", "rollback_finish"}

\* set_deployment inserts a row whose app_id has no Application row: the
\* commit raises.  In the try block of _run_deploy the except block calls
\* set_deployment again, which raises out of the task.
integrity_error(t) ==
    /\ WritesDeployment(t)
    /\ ~apps[tasks[t].app].exists
    /\ tasks' = [tasks EXCEPT ![t].pc = "raised"]
    /\ IF RunningDeploy(t) THEN run_deploy_finally(t) ELSE UNCHANGED handles
    /\ UNCHANGED <<apps, deployments, routes, cache, containers, events, nextTask, plan,
                   last_call, repos, hook, projects, acme, resolved, mirror, rest_vars>>

\* the Application row the invocation's set_deployment refers to exists
references_ok(t) == apps[tasks[t].app].exists

----------------------------------------------------------------------------
(* REST surface and deploy()/rollback() entry *)

Terminal == {"done", "failed", "raised", "not_found", "cancelled"}

InFlight == {t \in Tasks : tasks[t].pc \notin Terminal \cup {"idle"}}

\* a further invocation fits the bounds of the model
CanInvoke == nextTask <= MaxTasks /\ Cardinality(InFlight) < MaxInFlight

\* POST /applications
create_application(a) ==
    /\ a \in ApiApps
    /\ projects.exists
    /\ ~apps[a].exists
    /\ set_application(a, FreshApp)
    /\ UNCHANGED <<deployments, routes, cache, containers, events, tasks, nextTask, plan, last_call, repos, hook, side_vars>>

\* POST /applications/{id}/deploy: get_application, then deploy(app)
deploy_application(a) ==
    /\ apps[a].exists
    /\ CanInvoke
    /\ tasks' = [tasks EXCEPT ![nextTask] =
                    [IdleTask EXCEPT !.pc = "read", !.app = a, !.via = "api",
                                     !.snap = apps[a], !.pre = apps[a],
                                     !.pre_routes = HostRoutes(Domain(a))]]
    /\ nextTask' = nextTask + 1
    /\ UNCHANGED <<apps, deployments, routes, cache, containers, events, plan, last_call, repos, hook, side_vars>>

\* POST /applications/{id}/stop: get_application, then stop_app(app): stop
\* (without deleting) every listed container, write the Application copy with
\* status stopped
stop_application(a) ==
    /\ apps[a].exists
    /\ CanEmit(apps[a].container_ids)
    /\ containers' = [c \in Cids |->
            IF c \in apps[a].container_ids /\ containers[c] = "running"
            THEN "exited" ELSE containers[c]]
    /\ events' = events \o DieEvents(CidSeq(apps[a].container_ids))
    /\ set_application(a, [apps[a] EXCEPT !.status = "stopped"])
    /\ UNCHANGED <<deployments, routes, cache, tasks, nextTask, plan, last_call, repos, hook, side_vars>>

\* get_app_deployments: most recent first, at most DeployHistoryLimit rows
get_app_deployments(a) ==
    {v \in ExistingVersions(a) :
        Cardinality({w \in ExistingVersions(a) : w > v}) < DeployHistoryLimit}

\* POST /applications/{id}/rollback: get_application, then rollback(app, target)
\* up to the lookup of the target deployment
rollback_application(a, target) ==
    /\ apps[a].exists
    /\ CanInvoke
    /\ target \in get_app_deployments(a)
    /\ deployments[a][target].image # NoImage
    /\ tasks' = [tasks EXCEPT ![nextTask] =
                    [IdleTask EXCEPT !.pc = "read", !.app = a, !.via = "rollback",
                                     !.target = target,
                                     !.snap = apps[a], !.pre = apps[a],
                                     !.pre_routes = HostRoutes(Domain(a)),
                                     !.image = deployments[a][target].image]]
    /\ nextTask' = nextTask + 1
    /\ UNCHANGED <<apps, deployments, routes, cache, containers, events, plan, last_call, repos, hook, side_vars>>

\* POST /applications/{id}/rollback when the lookup finds no row of the target
\* version among the rows get_app_deployments returns, or a row without an
\* image: rollback() returns None and the handler answers 404
rollback_not_found(a, target) ==
    /\ apps[a].exists
    /\ CanInvoke
    /\ ~(target \in get_app_deployments(a) /\ deployments[a][target].image # NoImage)
    /\ tasks' = [tasks EXCEPT ![nextTask] =
                    [IdleTask EXCEPT !.pc = "not_found", !.app = a, !.via = "rollback",
                                     !.target = target,
                                     !.snap = apps[a], !.pre = apps[a]]]
    /\ nextTask' = nextTask + 1
    /\ UNCHANGED <<apps, deployments, routes, cache, containers, events, plan, last_call, repos, hook, side_vars>>

\* deploy() line 258 / rollback() line 588: read the next version
deploy_read(t) ==
    /\ tasks[t].pc = "read"
    /\ tasks' = [tasks EXCEPT ![t].pc = "write",
                              ![t].version = get_next_deployment_version(tasks[t].app)]
    /\ UNCHANGED <<apps, deployments, routes, cache, containers, events, nextTask, plan, last_call, repos, hook, side_vars>>

\* deploy() lines 259-262: write the pending Deployment and create the task;
\* rollback() lines 589-590: write the Deployment as deploying with the target image
deploy_write(t) ==
    /\ tasks[t].pc = "write"
    /\ references_ok(t)
    /\ IF tasks[t].via = "rollback"
       THEN /\ set_deployment(tasks[t].app, tasks[t].version,
                    [NoDeployment EXCEPT !.status = "deploying", !.image = tasks[t].image])
            /\ tasks' = [tasks EXCEPT ![t].pc = "run"]
            /\ UNCHANGED handles
       ELSE /\ set_deployment(tasks[t].app, tasks[t].version,
                    [NoDeployment EXCEPT !.status = "pending"])
            /\ tasks' = [tasks EXCEPT ![t].pc = "building",
                                      ![t].old_container_ids = tasks[t].snap.container_ids]
            /\ handles' = [handles EXCEPT !.map = register(@, DeployId(t), t)]
    /\ UNCHANGED <<apps, routes, cache, containers, events, nextTask, plan, last_call, repos, hook,
                   projects, acme, resolved, mirror, rest_vars>>

----------------------------------------------------------------------------
(* deploy_from_config *)

Range(s) == {s[k] : k \in DOMAIN s}

\* the submitted manifests: compose services in file order with their
\* depends_on lists
Configs == <<
    [services |-> <<"a">>,      depends_on |-> [x \in Apps |-> <<>>]],
    [services |-> <<"a">>,      depends_on |-> [x \in Apps |-> IF x = "a" THEN <<"b">> ELSE <<>>]],
    [services |-> <<"a", "b">>, depends_on |-> [x \in Apps |-> IF x = "a" THEN <<"b">> ELSE <<>>]],
    [services |-> <<"a", "b">>, depends_on |-> [x \in Apps |-> IF x = "a" THEN <<"b">> ELSE <<"a">>]]
>>

\* _resolve_deploy_order: visit(app_id) and the loops that call it
RECURSIVE visit(_, _, _)
RECURSIVE visit_each(_, _, _)

\* a visit that appends the application before its dependencies
visit_preorder(c, app_id, st) ==
    IF app_id \in st.visited THEN st
    ELSE LET marked == [st EXCEPT !.visited = @ \cup {app_id}]
         IN  IF app_id \notin Range(c.services) THEN marked
             ELSE visit_each(c, c.depends_on[app_id], [marked EXCEPT !.order = Append(@, app_id)])

visit(c, app_id, st) ==
    IF app_id \in st.visited THEN st
    ELSE LET marked == [st EXCEPT !.visited = @ \cup {app_id}]
         IN  IF app_id \notin Range(c.services) THEN marked
             ELSE [visit_each(c, c.depends_on[app_id], marked) EXCEPT !.order = Append(@, app_id)]

visit_each(c, ids, st) ==
    IF ids = <<>> THEN st ELSE visit_each(c, Tail(ids), visit(c, Head(ids), st))

resolve_deploy_order(c) ==
    visit_each(c, c.services, [visited |-> {}, order |-> <<>>]).order

\* deploy_from_config is inside `await self.deploy(app)`
PlanAwaiting ==
    IF plan.cur = 0 THEN FALSE ELSE tasks[plan.cur].pc \in {"read", "write"}

PlanReturned == plan.order = <<>> /\ ~PlanAwaiting

\* deploy_from_config lines 56-92: build the applications, fix the order
deploy_from_config(k) ==
    /\ PlanReturned
    /\ nextTask + Len(Configs[k].services) - 1 <= MaxTasks
    /\ plan' = [cfg |-> k, order |-> resolve_deploy_order(Configs[k]), cur |-> 0]
    /\ UNCHANGED <<apps, deployments, routes, cache, containers, events, tasks, nextTask, last_call, repos, hook, side_vars>>

\* deploy_from_config lines 95-97: set_application(app) with the freshly built
\* Application, then deploy(app), which is awaited up to its create_task
plan_deploy_next ==
    /\ plan.order # <<>>
    /\ ~PlanAwaiting
    /\ CanInvoke
    /\ LET a == Head(plan.order)
       IN  /\ set_application(a, FreshApp)
           /\ tasks' = [tasks EXCEPT ![nextTask] =
                    [IdleTask EXCEPT !.pc = "read", !.app = a, !.via = "config",
                                     !.snap = FreshApp, !.pre = apps[a],
                                     !.pre_routes = HostRoutes(Domain(a)),
                                     !.cfg = plan.cfg]]
    /\ nextTask' = nextTask + 1
    /\ plan' = [plan EXCEPT !.order = Tail(@), !.cur = nextTask]
    /\ UNCHANGED <<deployments, routes, cache, containers, events, last_call, repos, hook, side_vars>>

----------------------------------------------------------------------------
(* _run_deploy *)

\* the task's local Deployment copy written with a new status
DeployRow(t, status) ==
    [status |-> status, image |-> tasks[t].image,
     container_ids |-> IF status = "running" THEN tasks[t].new_container_ids ELSE {},
     logs |-> status = "failed"]

\* _update_app_status: the task's Application copy with the status replaced
update_app_status(t, status) ==
    set_application(tasks[t].app, [tasks[t].snap EXCEPT !.status = status])

\* lines 269-282: mark building, build or pull, mark deploying.
\* _build_from_git tags "vo/{app.id}:v{version}", _pull_image returns
\* app.image; either may raise
run_deploy_build(t) ==
    /\ tasks[t].pc = "building"
    /\ references_ok(t)
    /\ \/ LET image == IF Source(tasks[t].app) = "git"
                       THEN BuiltImage(tasks[t].version)
                       ELSE tasks[t].snap.image
          IN  /\ set_deployment(tasks[t].app, tasks[t].version,
                    [DeployRow(t, "deploying") EXCEPT !.image = image])
              /\ update_app_status(t, "deploying")
              /\ tasks' = [tasks EXCEPT ![t].pc = "run", ![t].image = image]
       \/ /\ set_deployment(tasks[t].app, tasks[t].version, DeployRow(t, "building"))
          /\ update_app_status(t, "building")
          /\ tasks' = [tasks EXCEPT ![t].pc = "fail"]
    /\ UNCHANGED <<routes, cache, containers, events, nextTask, plan, last_call, repos, hook, side_vars>>

\* where an exception in _run_containers lands: the except block of
\* _run_deploy, or out of rollback() (which catches nothing)
RaisedPc(t) == IF tasks[t].via = "rollback" THEN "raised" ELSE "fail"

\* where _run_containers returns to
ReturnedPc(t) == IF tasks[t].via = "rollback" THEN "rollback_finish" ELSE "health"

\* _run_containers, one replica: create, connect, start, append to container_ids
run_containers(t) ==
    /\ tasks[t].pc = "run"
    /\ LET a == tasks[t].app
           i == tasks[t].i
           c == <<t, i>>
           last == i + 1 = Replicas(a)
       IN
       \/ \* containers.create raises (name conflict or runtime error)
          /\ tasks' = [tasks EXCEPT ![t].pc = RaisedPc(t)]
          /\ UNCHANGED <<containers, events>>
       \/ \* created, container.start raises
          /\ ~NameInUse(t, i)
          /\ containers' = [containers EXCEPT ![c] = "created"]
          /\ tasks' = [tasks EXCEPT ![t].pc = RaisedPc(t)]
          /\ UNCHANGED events
       \/ \* created and started
          /\ ~NameInUse(t, i)
          /\ Len(events) < MaxEvents
          /\ containers' = [containers EXCEPT ![c] = "running"]
          /\ events' = Append(events, [action |-> "start", cid |-> c])
          /\ tasks' = [tasks EXCEPT
                ![t].i = i + 1,
                ![t].run_ids = @ \cup {c},
                ![t].pc = IF last THEN ReturnedPc(t) ELSE "run",
                ![t].new_container_ids =
                    IF last /\ tasks[t].via # "rollback" THEN tasks[t].run_ids \cup {c} ELSE @]
    /\ UNCHANGED <<apps, deployments, routes, cache, nextTask, plan, last_call, repos, hook, side_vars>>

\* a round in which some replica returned 0
any_healthy(ids, ok) == \E c \in ids : c \in ok

\* all(results): every replica returned 0 in the round
all_healthy(ids, ok) == \A c \in ids : c \in ok

\* _run_healthcheck can return True only for a container the check can be
\* executed in
CanPass(ids) == {c \in ids : containers[c] = "running"}

\* _wait_for_healthy: no healthcheck (or no container) counts as healthy
\* after the settle wait; otherwise the rounds repeat until one in which
\* all(results) holds, or until the window is over
wait_for_healthy(t) ==
    /\ tasks[t].pc = "health"
    /\ LET ids == tasks[t].new_container_ids
       IN  \/ /\ ~HasHealthcheck(tasks[t].app) \/ ids = {}
              /\ tasks' = [tasks EXCEPT ![t].pc = "cutover"]
           \/ /\ HasHealthcheck(tasks[t].app)
              /\ ids # {}
              /\ \E ok \in SUBSET CanPass(ids) :
                    /\ all_healthy(ids, ok)
                    /\ tasks' = [tasks EXCEPT ![t].pc = "cutover", ![t].healthy_ids = ok]
           \/ /\ HasHealthcheck(tasks[t].app)
              /\ ids # {}
              /\ tasks' = [tasks EXCEPT ![t].pc = "fail"]
    /\ UNCHANGED <<apps, deployments, routes, cache, containers, events, nextTask, plan, last_call, repos, hook, side_vars>>

\* lines 307-311: the Deployment is marked running, the Application gets the
\* new container ids and image
cutover(t) ==
    /\ tasks[t].pc = "cutover"
    /\ references_ok(t)
    /\ set_deployment(tasks[t].app, tasks[t].version, DeployRow(t, "running"))
    /\ set_application(tasks[t].app,
            [tasks[t].snap EXCEPT !.status = "running",
                                  !.container_ids = tasks[t].new_container_ids,
                                  !.image = tasks[t].image])
    /\ tasks' = [tasks EXCEPT ![t].pc = "route"]
    /\ UNCHANGED <<routes, cache, containers, events, nextTask, plan, last_call, repos, hook, side_vars>>

\* _create_route: one upstream per container the runtime can show with an
\* address; no upstream, no write
create_route(t) ==
    /\ tasks[t].pc = "route"
    /\ LET a == tasks[t].app
           ups == {c \in tasks[t].new_container_ids : containers[c] = "running"}
       IN  IF ups # {}
           THEN set_route(AppRouteId(a),
                    [exists |-> TRUE, host |-> Domain(a), enabled |-> TRUE, upstreams |-> ups])
           ELSE UNCHANGED <<routes, cache>>
    /\ tasks' = [tasks EXCEPT ![t].pc = "stop_old"]
    /\ UNCHANGED <<apps, deployments, containers, events, nextTask, plan, last_call, repos, hook, side_vars>>

\* line 320
stop_old(t) ==
    /\ tasks[t].pc = "stop_old"
    /\ CanEmit(tasks[t].old_container_ids)
    /\ stop_containers(tasks[t].old_container_ids)
    /\ tasks' = [tasks EXCEPT ![t].pc = "done"]
    /\ run_deploy_finally(t)
    /\ UNCHANGED <<apps, deployments, routes, cache, nextTask, plan, last_call, repos, hook,
                   projects, acme, resolved, mirror, rest_vars>>

\* lines 322-337: the except block
run_deploy_except(t) ==
    /\ tasks[t].pc = "fail"
    /\ references_ok(t)
    /\ CanEmit(tasks[t].new_container_ids)
    /\ set_deployment(tasks[t].app, tasks[t].version, DeployRow(t, "failed"))
    /\ update_app_status(t, "failed")
    /\ stop_containers(tasks[t].new_container_ids)
    /\ tasks' = [tasks EXCEPT ![t].pc = "failed"]
    /\ run_deploy_finally(t)
    /\ UNCHANGED <<routes, cache, nextTask, plan, last_call, repos, hook, projects, acme, resolved, mirror, rest_vars>>

----------------------------------------------------------------------------
(* rollback(), after _run_containers *)

\* lines 592-595
rollback_finish(t) ==
    /\ tasks[t].pc = "rollback_finish"
    /\ references_ok(t)
    /\ set_deployment(tasks[t].app, tasks[t].version,
            [status |-> "running", image |-> tasks[t].image,
             container_ids |-> tasks[t].run_ids, logs |-> FALSE])
    /\ set_application(tasks[t].app,
            [tasks[t].snap EXCEPT !.status = "running",
                                  !.container_ids = tasks[t].run_ids,
                                  !.image = tasks[t].image])
    /\ tasks' = [tasks EXCEPT ![t].pc = "done"]
    /\ UNCHANGED <<routes, cache, containers, events, nextTask, plan, last_call, repos, hook, side_vars>>

----------------------------------------------------------------------------
(* Docker provider *)

AppOfCid(c) == tasks[c[1]].app

\* a loop whose iteration came to its end without raising goes to the top of
\* its `while`
iteration_done(loop) == [loop EXCEPT !.resumed = loop.raised]

\* the registry's container mirror
set_container(c) == mirror' = mirror \cup {c}

delete_container(c) == mirror' = mirror \ {c}

\* _watch_events, one event.  "start": the container is fetched and
\* _process_container(container, "start") mirrors it and writes the routes
\* its labels declare (none without an address).  "stop"/"die"/"kill":
\* _remove_container_routes purges "{short_id}-*"; _process_container is not
\* called for these actions.
provider_event ==
    /\ loops["watch_events"].pc = "iterate"
    /\ events # <<>>
    /\ loops' = [loops EXCEPT !["watch_events"] = iteration_done(@)]
    /\ LET e == Head(events)
           c == e.cid
       IN  IF e.action = "start"
           THEN /\ IF Live(c) THEN set_container(c) ELSE UNCHANGED mirror
                /\ IF containers[c] = "running"
                   THEN set_route(CtrRouteId(c, AppOfCid(c)),
                           [exists |-> TRUE, host |-> LabelHost(AppOfCid(c)),
                            enabled |-> TRUE, upstreams |-> {c}])
                   ELSE UNCHANGED <<routes, cache>>
           ELSE /\ delete_routes({r \in RouteIds : r.kind = "ctr" /\ r.cid = c})
                /\ UNCHANGED mirror
    /\ events' = Tail(events)
    /\ UNCHANGED <<apps, deployments, containers, tasks, nextTask, plan, last_call, repos, hook,
                   projects, acme, handles, resolved, loops_rest>>

Next ==
    \/ \E a \in Apps : create_application(a)
    \/ \E a \in Apps : deploy_application(a)
    \/ \E a \in Apps, v \in Versions : rollback_application(a, v)
    \/ \E t \in Tasks : deploy_read(t)
    \/ \E t \in Tasks : deploy_write(t)
    \/ \E t \in Tasks : run_deploy_build(t)
    \/ \E t \in Tasks : run_containers(t)
    \/ \E t \in Tasks : wait_for_healthy(t)
    \/ \E t \in Tasks : cutover(t)
    \/ \E t \in Tasks : create_route(t)
    \/ \E t \in Tasks : stop_old(t)
    \/ \E t \in Tasks : run_deploy_except(t)
    \/ \E t \in Tasks : rollback_finish(t)
    \/ \E k \in DOMAIN Configs : deploy_from_config(k)
    \/ plan_deploy_next
    \/ provider_event

Spec == Init /\ [][Next]_vars

\* The REST deploy path together with what happens to containers outside a
\* deploy: the operator stops an application, a container exits on its own.
RuntimeNext ==
    \/ \E a \in Apps : create_application(a)
    \/ \E a \in Apps : deploy_application(a)
    \/ \E a \in Apps : stop_application(a)
    \/ \E c \in Cids : container_dies(c)
    \/ \E t \in Tasks : deploy_read(t)
    \/ \E t \in Tasks : deploy_write(t)
    \/ \E t \in Tasks : run_deploy_build(t)
    \/ \E t \in Tasks : run_containers(t)
    \/ \E t \in Tasks : wait_for_healthy(t)
    \/ \E t \in Tasks : cutover(t)
    \/ \E t \in Tasks : create_route(t)
    \/ \E t \in Tasks : stop_old(t)
    \/ \E t \in Tasks : run_deploy_except(t)
    \/ provider_event

RuntimeSpec == Init /\ [][RuntimeNext]_vars

\* Rollback of an application with a deployment history.  The application "a"
\* has been deployed n times and every one of those deploys failed: at the
\* build or pull (row `failed` without image) for version k, at the first
\* containers.create (row `failed` with the pulled image) for the others.  No
\* container exists and the Application row is the last
\* _update_app_status(FAILED) write.
FailedRow(image) == [status |-> "failed", image |-> image, container_ids |-> {}, logs |-> TRUE]

HistoryInit ==
    \E n \in 0..MaxHistory : \E k \in 0..n :
        /\ apps = [a \in Apps |->
                IF a = "a" THEN [FreshApp EXCEPT !.status = IF n = 0 THEN "pending" ELSE "failed"]
                ELSE NoApp]
        /\ deployments = [a \in Apps |-> [v \in Versions |->
                IF a = "a" /\ v \in 1..n
                THEN FailedRow(IF v = k THEN NoImage ELSE DeclaredImage)
                ELSE NoDeployment]]
        /\ routes = [r \in RouteIds |-> NoRoute]
        /\ containers = [c \in Cids |-> "none"]
        /\ events = <<>>
        /\ tasks = [t \in Tasks |-> IdleTask]
        /\ nextTask = 1
        /\ plan = [cfg |-> 0, order |-> <<>>, cur |-> 0]
        /\ cache = [version |-> 0, host |-> {}, enabled |-> {}]
        /\ last_call = NoCall
        /\ repos = NoRepo
        /\ hook = NoHook
        /\ projects = TheProject
        /\ acme = NoIssuance
        /\ handles = NoHandles
        /\ resolved = NoResolve
        /\ mirror = {}
        /\ docker_provider = Subscribed
        /\ event_bus = NoBus
        /\ loops = [l \in Loops |-> StartedLoop]
        /\ hot = [r \in RouteIds |-> NoKeys]
        /\ registry_calls = [call \in 1..MaxRouteCalls |-> NoRegistryCall]
        /\ nonces = NoNonces
        /\ deliveries = [d \in 1..MaxDeliveries |-> NoDelivery]

RollbackNext ==
    \/ \E a \in Apps, v \in Versions : rollback_application(a, v)
    \/ \E a \in Apps, v \in Versions : rollback_not_found(a, v)
    \/ \E t \in Tasks : deploy_read(t)
    \/ \E t \in Tasks : deploy_write(t)
    \/ \E t \in Tasks : run_containers(t)
    \/ \E t \in Tasks : rollback_finish(t)

RollbackSpec == HistoryInit /\ [][RollbackNext]_vars

----------------------------------------------------------------------------
(* _resolve_deploy_order on its own, over every small plan *)

\* number of entries of one depends_on list
MaxDeps == 2

\* the services of a plan, and a name no service of the plan has
PlanApps == {"a", "b", "c"}
OutsideApp == "x"

\* the lists that hold each element of S once
Orderings(S) == {s \in [1..Cardinality(S) -> S] : Range(s) = S}

\* compose services in file order; depends_on of each service
Plans ==
    LET ServiceLists == UNION {Orderings(T) : T \in SUBSET PlanApps}
        DepLists == UNION {Orderings(T) :
                        T \in {U \in SUBSET (PlanApps \cup {OutsideApp}) : Cardinality(U) <= MaxDeps}}
    IN  {[services |-> sv, depends_on |-> d] : sv \in ServiceLists, d \in [PlanApps -> DepLists]}

OrderInit ==
    /\ apps = [a \in Apps |-> NoApp]
    /\ deployments = [a \in Apps |-> [v \in Versions |-> NoDeployment]]
    /\ routes = [r \in RouteIds |-> NoRoute]
    /\ containers = [c \in Cids |-> "none"]
    /\ events = <<>>
    /\ tasks = [t \in Tasks |-> IdleTask]
    /\ nextTask = 1
    /\ plan = [cfg |-> 0, order |-> <<>>, cur |-> 0]
    /\ cache = [version |-> 0, host |-> {}, enabled |-> {}]
    /\ last_call = NoCall
    /\ repos = NoRepo
    /\ hook = NoHook
    /\ projects = TheProject
    /\ acme = NoIssuance
    /\ handles = NoHandles
    /\ \E p \in Plans : resolved = [input |-> p, order |-> <<>>, done |-> FALSE]
    /\ mirror = {}
    /\ docker_provider = Subscribed
    /\ event_bus = NoBus
    /\ loops = [l \in Loops |-> StartedLoop]
    /\ hot = [r \in RouteIds |-> NoKeys]
    /\ registry_calls = [call \in 1..MaxRouteCalls |-> NoRegistryCall]
    /\ nonces = NoNonces
    /\ deliveries = [d \in 1..MaxDeliveries |-> NoDelivery]

\* deploy_order = self._resolve_deploy_order(apps)
resolve_order ==
    /\ ~resolved.done
    /\ resolved' = [resolved EXCEPT !.order = resolve_deploy_order(resolved.input),
                                    !.done = TRUE]
    /\ UNCHANGED <<engine_vars, routes, cache, last_call, repos, hook, projects, acme, handles, mirror, rest_vars>>

OrderNext == resolve_order

OrderSpec == OrderInit /\ [][OrderNext]_vars

----------------------------------------------------------------------------
(* Shutdown *)

\* DeploymentEngine.stop(): cancel every task in _tasks, close the runtime
\* client.  A cancelled task gets CancelledError at the await it is at, which
\* passes `except Exception` and runs the `finally`.
engine_stop ==
    /\ ~handles.stopped
    /\ LET cancelled == {h.task : h \in handles.map} \cap InFlight
       IN  /\ tasks' = [t \in Tasks |->
                    IF t \in cancelled THEN [tasks[t] EXCEPT !.pc = "cancelled"] ELSE tasks[t]]
           /\ handles' = [map |-> {h \in handles.map : h.task \notin cancelled},
                          stopped |-> TRUE,
                          at_stop |-> {t \in Tasks : RunningDeploy(t)}]
    /\ UNCHANGED <<apps, deployments, routes, cache, containers, events, nextTask, plan,
                   last_call, repos, hook, projects, acme, resolved, mirror, rest_vars>>

ShutdownNext ==
    \/ \E a \in Apps : create_application(a)
    \/ \E a \in Apps : deploy_application(a)
    \/ \E t \in Tasks : deploy_read(t)
    \/ \E t \in Tasks : deploy_write(t)
    \/ \E t \in Tasks : run_deploy_build(t)
    \/ \E t \in Tasks : run_containers(t)
    \/ \E t \in Tasks : wait_for_healthy(t)
    \/ \E t \in Tasks : cutover(t)
    \/ \E t \in Tasks : create_route(t)
    \/ \E t \in Tasks : stop_old(t)
    \/ \E t \in Tasks : run_deploy_except(t)
    \/ provider_event
    \/ engine_stop

ShutdownSpec == Init /\ [][ShutdownNext]_vars

----------------------------------------------------------------------------
(* DELETE /projects/{id} *)

\* delete_application: the Deployment rows of the application, then its row
delete_application(a) ==
    /\ deployments' = [deployments EXCEPT ![a] = [v \in Versions |-> NoDeployment]]
    /\ apps' = [apps EXCEPT ![a] = NoApp]

\* delete_project up to the end of remove_app for the project's application:
\* get_project_applications, then stop and delete the containers the fetched
\* Application lists and delete_route("app-{id}").  A project without
\* applications is deleted at once.
delete_project_remove_app ==
    /\ projects.exists
    /\ projects.del = "idle"
    /\ IF apps["a"].exists
       THEN /\ CanEmit(apps["a"].container_ids)
            /\ stop_containers(apps["a"].container_ids)
            /\ delete_routes({AppRouteId("a")})
            /\ projects' = [projects EXCEPT !.del = "removed_app", !.app = apps["a"]]
       ELSE /\ projects' = [projects EXCEPT !.exists = FALSE, !.del = "returned"]
            /\ UNCHANGED <<containers, events, routes, cache>>
    /\ UNCHANGED <<apps, deployments, tasks, nextTask, plan, last_call, repos, hook, acme, handles, resolved, mirror, rest_vars>>

\* the rest of delete_project: delete_application, then the project row
delete_project_rows ==
    /\ projects.del = "removed_app"
    /\ delete_application("a")
    /\ projects' = [projects EXCEPT !.exists = FALSE, !.del = "returned"]
    /\ UNCHANGED <<routes, cache, containers, events, tasks, nextTask, plan, last_call, repos,
                   hook, acme, handles, resolved, mirror, rest_vars>>

ProjectNext ==
    \/ \E a \in Apps : create_application(a)
    \/ \E a \in Apps : deploy_application(a)
    \/ \E t \in Tasks : deploy_read(t)
    \/ \E t \in Tasks : deploy_write(t)
    \/ \E t \in Tasks : run_deploy_build(t)
    \/ \E t \in Tasks : run_containers(t)
    \/ \E t \in Tasks : wait_for_healthy(t)
    \/ \E t \in Tasks : cutover(t)
    \/ \E t \in Tasks : create_route(t)
    \/ \E t \in Tasks : stop_old(t)
    \/ \E t \in Tasks : run_deploy_except(t)
    \/ \E t \in Tasks : integrity_error(t)
    \/ provider_event
    \/ delete_project_remove_app
    \/ delete_project_rows

ProjectSpec == Init /\ [][ProjectNext]_vars

----------------------------------------------------------------------------
(* ACME client: obtain_certificate(domain).  Each action is the code up to  *)
(* the answer of one request to the CA; the token of the n-th call is n.    *)

\* range(30) of the two polling loops
PollLimit == 30

\* what a polled challenge or order reports
Statuses == {"pending", "processing", "valid", "invalid"}

set_acme_challenge(store, token) == store \cup {token}

\* a delete that leaves the token in the store
delete_acme_challenge_noop(store, token) == store

delete_acme_challenge(store, token) == store \ {token}

\* obtain_certificate returns None (or raises): the call is over
Returned(outcome) == [acme EXCEPT !.pc = "idle", !.outcome = outcome]

acme_vars_unchanged ==
    UNCHANGED <<engine_vars, routes, cache, last_call, repos, hook, projects, handles, resolved, mirror, rest_vars>>

\* lines 118-131 and _solve_http01 up to the answer to the challenge
\* notification: newOrder, the authorization, set_acme_challenge, notify
obtain_certificate(order_ok, notify_ok) ==
    /\ acme.pc = "idle"
    /\ acme.n < MaxIssuances
    /\ LET token == acme.n + 1
           begun == [acme EXCEPT !.n = token, !.polls = 0, !.pre = acme.now, !.outcome = "none"]
       IN  acme' =
             IF ~order_ok THEN [begun EXCEPT !.outcome = "order_failed"]
             ELSE IF ~notify_ok
             THEN [begun EXCEPT !.outcome = "notify_failed",
                     !.challenges = delete_acme_challenge(set_acme_challenge(@, token), token)]
             ELSE [begun EXCEPT !.pc = "challenge",
                     !.challenges = set_acme_challenge(@, token)]
    /\ acme_vars_unchanged

\* _solve_http01, one round of the polling loop, and what follows the loop
\* when the round was the last
solve_http01_poll(status) ==
    /\ acme.pc = "challenge"
    /\ acme.polls < PollLimit
    /\ LET polled == [acme EXCEPT !.polls = @ + 1]
           purged == [polled EXCEPT !.challenges = delete_acme_challenge(@, acme.n)]
       IN  acme' =
             IF status = "valid" THEN [purged EXCEPT !.pc = "finalize"]
             ELSE IF status = "invalid"
             THEN [purged EXCEPT !.pc = "idle", !.outcome = "challenge_invalid"]
             ELSE IF polled.polls = PollLimit
             THEN [purged EXCEPT !.pc = "idle", !.outcome = "challenge_timeout"]
             ELSE polled
    /\ acme_vars_unchanged

\* lines 132-137: the CSR is sent to the finalize URL
finalize(ok) ==
    /\ acme.pc = "finalize"
    /\ acme' = IF ok THEN [acme EXCEPT !.pc = "order", !.polls = 0]
                     ELSE Returned("finalize_failed")
    /\ acme_vars_unchanged

\* lines 138-149: one round of the order polling loop
order_poll(status) ==
    /\ acme.pc = "order"
    /\ acme.polls < PollLimit
    /\ LET polled == [acme EXCEPT !.polls = @ + 1]
       IN  acme' =
             IF status = "valid" THEN [polled EXCEPT !.pc = "download"]
             ELSE IF status = "invalid"
             THEN [polled EXCEPT !.pc = "idle", !.outcome = "order_invalid"]
             ELSE IF polled.polls = PollLimit
             THEN [polled EXCEPT !.pc = "idle", !.outcome = "order_timeout"]
             ELSE polled
    /\ acme_vars_unchanged

\* lines 150-166: the certificate is downloaded, then written to
\* {domain}.crt, then the key to {domain}.key; opening the key file can fail
download_and_write(ok, key_written) ==
    /\ acme.pc = "download"
    /\ acme' =
         IF ~ok THEN Returned("download_failed")
         ELSE IF ~key_written
         THEN [Returned("raised") EXCEPT !.now.cert_file = acme.n]
         ELSE [acme EXCEPT !.pc = "store", !.now.cert_file = acme.n, !.now.key_file = acme.n]
    /\ acme_vars_unchanged

\* lines 167-176: the certificate is parsed for its expiry and stored with
\* set_certificate; the parse or the write can raise, and the await is where
\* a cancelled renewal task stops
set_certificate(stored) ==
    /\ acme.pc = "store"
    /\ acme' = IF stored THEN [Returned("issued") EXCEPT !.now.record = acme.n]
                        ELSE Returned("raised")
    /\ acme_vars_unchanged

\* a request to the CA raises (transport error, timeout of the HTTP client)
request_raises ==
    /\ acme.pc \in {"challenge", "finalize", "order", "download"}
    /\ acme' = Returned("raised")
    /\ acme_vars_unchanged

AcmeNext ==
    \/ \E o, n \in BOOLEAN : obtain_certificate(o, n)
    \/ \E st \in Statuses : solve_http01_poll(st)
    \/ \E ok \in BOOLEAN : finalize(ok)
    \/ \E st \in Statuses : order_poll(st)
    \/ \E ok, k \in BOOLEAN : download_and_write(ok, k)
    \/ \E ok \in BOOLEAN : set_certificate(ok)
    \/ request_raises

AcmeSpec == Init /\ [][AcmeNext]_vars

----------------------------------------------------------------------------
(* Docker provider: start().  sync_all lists the containers and processes   *)
(* them one by one; only then is _watch_events created, and only there is   *)
(* the event stream subscribed.  The runtime delivers an event to the       *)
(* subscribers it has at the moment of the event.                           *)

\* the runtime creates and starts a labelled container (anyone's `docker run`)
runtime_start(c) ==
    /\ containers[c] = "none"
    /\ containers' = [containers EXCEPT ![c] = "running"]
    /\ IF docker_provider.pc = "watching"
       THEN /\ Len(events) < MaxEvents
            /\ events' = Append(events, [action |-> "start", cid |-> c])
       ELSE UNCHANGED events
    /\ UNCHANGED <<apps, deployments, routes, cache, tasks, nextTask, plan, last_call, repos, hook, side_vars>>

\* a running container stops or exits
runtime_die(c) ==
    /\ containers[c] = "running"
    /\ containers' = [containers EXCEPT ![c] = "exited"]
    /\ IF docker_provider.pc = "watching"
       THEN /\ Len(events) < MaxEvents
            /\ events' = Append(events, [action |-> "die", cid |-> c])
       ELSE UNCHANGED events
    /\ UNCHANGED <<apps, deployments, routes, cache, tasks, nextTask, plan, last_call, repos, hook, side_vars>>

\* sync_all, `containers.list()`: the containers running at this moment
sync_all_list ==
    /\ docker_provider.pc = "start"
    /\ docker_provider' = [pc |-> "sync", listed |-> {c \in Cids : containers[c] = "running"}]
    /\ UNCHANGED <<engine_vars, routes, cache, last_call, repos, hook,
                   projects, acme, handles, resolved, mirror, provider_rest>>

\* sync_all, one `_process_container(container, "start")`: a container that is
\* gone is skipped, one that is there is mirrored, one that is running (has an
\* address) gets the route of its labels
sync_all_process(c) ==
    /\ docker_provider.pc = "sync"
    /\ c \in docker_provider.listed
    /\ docker_provider' = [docker_provider EXCEPT !.listed = @ \ {c}]
    /\ IF Live(c) THEN set_container(c) ELSE UNCHANGED mirror
    /\ IF containers[c] = "running"
       THEN set_route(CtrRouteId(c, AppOfCid(c)),
               [exists |-> TRUE, host |-> LabelHost(AppOfCid(c)),
                enabled |-> TRUE, upstreams |-> {c}])
       ELSE UNCHANGED <<routes, cache>>
    /\ UNCHANGED <<engine_vars, last_call, repos, hook, projects, acme, handles, resolved, provider_rest>>

\* start() creates the _watch_events task, which subscribes
watch_events_subscribe ==
    /\ docker_provider.pc = "sync"
    /\ docker_provider.listed = {}
    /\ docker_provider' = [docker_provider EXCEPT !.pc = "watching"]
    /\ UNCHANGED <<engine_vars, routes, cache, last_call, repos, hook,
                   projects, acme, handles, resolved, mirror, provider_rest>>

\* a first start of the orchestrator on a host where containers may already run
StartupInit ==
    /\ apps = [a \in Apps |-> NoApp]
    /\ deployments = [a \in Apps |-> [v \in Versions |-> NoDeployment]]
    /\ routes = [r \in RouteIds |-> NoRoute]
    /\ containers \in [Cids -> {"none", "running"}]
    /\ events = <<>>
    /\ tasks = [t \in Tasks |-> IdleTask]
    /\ nextTask = 1
    /\ plan = [cfg |-> 0, order |-> <<>>, cur |-> 0]
    /\ cache = [version |-> 0, host |-> {}, enabled |-> {}]
    /\ last_call = NoCall
    /\ repos = NoRepo
    /\ hook = NoHook
    /\ projects = TheProject
    /\ acme = NoIssuance
    /\ handles = NoHandles
    /\ resolved = NoResolve
    /\ mirror = {}
    /\ docker_provider = NotStarted
    /\ event_bus = NoBus
    /\ loops = [l \in Loops |-> StartedLoop]
    /\ hot = [r \in RouteIds |-> NoKeys]
    /\ registry_calls = [call \in 1..MaxRouteCalls |-> NoRegistryCall]
    /\ nonces = NoNonces
    /\ deliveries = [d \in 1..MaxDeliveries |-> NoDelivery]

StartupNext ==
    \/ \E c \in Cids : runtime_start(c)
    \/ \E c \in Cids : runtime_die(c)
    \/ sync_all_list
    \/ \E c \in Cids : sync_all_process(c)
    \/ watch_events_subscribe
    \/ provider_event

StartupSpec == StartupInit /\ [][StartupNext]_vars

----------------------------------------------------------------------------
(* EventBus *)

\* number of handlers registered for one event name
MaxHandlers == 3

\* the callables components register: coroutine functions and plain functions
Handlers == {[fn |-> "h1", coroutine |-> TRUE], [fn |-> "h2", coroutine |-> FALSE]}

\* what one call of a handler does: it returns, or it raises an Exception
Outcomes == {"returns", "raises"}

event_bus_others ==
    <<engine_vars, routes, cache, last_call, repos, hook, projects, acme, handles, resolved,
      mirror, bus_rest>>

\* on(event, handler): append to the event's list (created when missing)
on(e, h) ==
    /\ Len(event_bus.handlers[e]) < MaxHandlers
    /\ event_bus' = [event_bus EXCEPT !.handlers[e] = Append(@, h)]
    /\ UNCHANGED event_bus_others

\* emit(event, data), up to the loop: an event without handler list returns
emit(e) ==
    /\ event_bus.name = "none"
    /\ event_bus' = IF event_bus.handlers[e] = <<>>
                    THEN [event_bus EXCEPT !.invoked = <<>>, !.raised_at = {}, !.i = 0,
                                           !.listed = <<>>, !.result = "returned"]
                    ELSE [event_bus EXCEPT !.name = e, !.i = 1, !.invoked = <<>>,
                                           !.raised_at = {}, !.listed = <<>>,
                                           !.result = "none"]
    /\ UNCHANGED event_bus_others

\* an emit whose try block lets the handler's exception through
call_handler_unguarded(bus, outcome) ==
    IF outcome = "raises"
    THEN [bus EXCEPT !.invoked = Append(@, bus.handlers[bus.name][bus.i]),
                     !.raised_at = @ \cup {bus.i},
                     !.listed = bus.handlers[bus.name],
                     !.name = "none", !.result = "raised"]
    ELSE [bus EXCEPT !.invoked = Append(@, bus.handlers[bus.name][bus.i]), !.i = @ + 1]

\* the body of the loop: the handler is awaited or called; an Exception is
\* logged and the loop goes on
call_handler(bus, outcome) ==
    [bus EXCEPT !.invoked = Append(@, bus.handlers[bus.name][bus.i]),
                !.raised_at = IF outcome = "raises" THEN @ \cup {bus.i} ELSE @,
                !.i = @ + 1]

\* one iteration of emit's loop
emit_handler(outcome) ==
    /\ event_bus.name # "none"
    /\ event_bus.i <= Len(event_bus.handlers[event_bus.name])
    /\ event_bus' = call_handler(event_bus, outcome)
    /\ UNCHANGED event_bus_others

\* the list iterator is exhausted: emit returns
emit_return ==
    /\ event_bus.name # "none"
    /\ event_bus.i > Len(event_bus.handlers[event_bus.name])
    /\ event_bus' = [event_bus EXCEPT !.listed = event_bus.handlers[event_bus.name],
                                      !.name = "none", !.result = "returned"]
    /\ UNCHANGED event_bus_others

EventNext ==
    \/ \E e \in EventNames, h \in Handlers : on(e, h)
    \/ \E e \in EventNames : emit(e)
    \/ \E o \in Outcomes : emit_handler(o)
    \/ emit_return

EventSpec == Init /\ [][EventNext]_vars

----------------------------------------------------------------------------
(* Background loops.  Each is `while self.running:` around a try block; the *)
(* health-check and renewal loops sleep after every iteration, the event    *)
(* watcher sleeps one second after an iteration that raised.                *)

\* the containers whose events the watcher sees in this part of the model
LoopCids == {c \in Cids : c[1] = 1}

loops_others ==
    <<apps, deployments, tasks, nextTask, plan, routes, cache, last_call, repos, hook,
      projects, acme, handles, resolved, mirror, loops_rest>>

\* a loop without `except Exception`: the exception ends the task
iteration_raised_unhandled(loop) == [loop EXCEPT !.pc = "ended", !.raised = TRUE]

\* `except Exception as e: log.error(...)`, then the sleep
iteration_raised(loop) == [loop EXCEPT !.pc = "backoff", !.raised = TRUE]

\* _watch_events, an iteration that raises after the event was taken (the
\* registry or the runtime call fails with something other than DockerError)
watch_events_raises ==
    /\ loops["watch_events"].pc = "iterate"
    /\ events # <<>>
    /\ events' = Tail(events)
    /\ loops' = [loops EXCEPT !["watch_events"] = iteration_raised(@)]
    /\ UNCHANGED <<containers, loops_others>>

\* HealthChecker._run and CertRenewalTask._run, one iteration: _check_all or
\* renew_expiring returns or raises; both ways the loop sleeps next
loop_iteration(l, ok) ==
    /\ l \in {"health_check", "cert_renewal"}
    /\ loops[l].pc = "iterate"
    /\ loops' = [loops EXCEPT ![l] = IF ok THEN [iteration_done(@) EXCEPT !.pc = "sleep"]
                                        ELSE iteration_raised(@)]
    /\ UNCHANGED <<containers, events, loops_others>>

\* the sleep is over: back to `while self.running`
loop_sleep_over(l) ==
    /\ loops[l].pc \in {"sleep", "backoff"}
    /\ loops' = [loops EXCEPT ![l].pc = IF loops[l].running THEN "iterate" ELSE "ended"]
    /\ UNCHANGED <<containers, events, loops_others>>

\* stop(): running = False, the task is cancelled and awaited
loop_stop(l) ==
    /\ loops[l].pc # "ended"
    /\ loops' = [loops EXCEPT ![l].running = FALSE, ![l].pc = "ended"]
    /\ UNCHANGED <<containers, events, loops_others>>

LoopNext ==
    \/ \E c \in LoopCids : runtime_start(c)
    \/ \E c \in LoopCids : runtime_die(c)
    \/ provider_event
    \/ watch_events_raises
    \/ \E l \in Loops, ok \in BOOLEAN : loop_iteration(l, ok)
    \/ \E l \in Loops : loop_sleep_over(l)
    \/ \E l \in Loops : loop_stop(l)

\* asyncio.sleep returns
LoopSpec == Init /\ [][LoopNext]_vars /\ \A l \in Loops : WF_vars(loop_sleep_over(l))

----------------------------------------------------------------------------
(* RegistrySQL.set_route and delete_route, step by step: the session commit *)
(* is one await, the hot-cache pipeline (MULTI/EXEC) the next.  Calls come  *)
(* from concurrent request handlers and tasks of the one event loop.        *)

RegistryCalls == 1..MaxRouteCalls

\* the route ids and the rows the concurrent callers write
MirrorIds == {ManualRouteId, AppRouteId("a")}
MirrorRows == {[exists |-> TRUE, host |-> h, enabled |-> TRUE, upstreams |-> u] :
                    h \in Hosts, u \in {{}, {<<1, 0>>}}}

registry_others ==
    <<engine_vars, last_call, repos, hook, projects, acme, handles, resolved, mirror,
      registry_rest>>

\* set_route up to `await session.commit()`: the row is upserted
set_route_commit(k, id, row) ==
    /\ registry_calls[k].pc = "idle"
    /\ \A j \in RegistryCalls : j < k => registry_calls[j].pc # "idle"
    /\ routes' = [routes EXCEPT ![id] = row]
    /\ registry_calls' = [registry_calls EXCEPT
            ![k] = [pc |-> "committed", op |-> "set", id |-> id, row |-> row, rowcount |-> 0]]
    /\ UNCHANGED <<cache, hot, registry_others>>

\* delete_route up to `await session.commit()`; with rowcount 0 there is no
\* pipeline and the call returns False
delete_route_commit(k, id) ==
    /\ registry_calls[k].pc = "idle"
    /\ \A j \in RegistryCalls : j < k => registry_calls[j].pc # "idle"
    /\ routes' = [routes EXCEPT ![id] = NoRoute]
    /\ LET n == IF routes[id].exists THEN 1 ELSE 0
       IN  registry_calls' = [registry_calls EXCEPT
                ![k] = [pc |-> IF n > 0 THEN "committed" ELSE "returned",
                        op |-> "delete", id |-> id, row |-> NoRoute, rowcount |-> n]]
    /\ UNCHANGED <<cache, hot, registry_others>>

\* what the pipeline of a call writes: set_route sets routes:{id}, adds the id
\* to the host set and to or from the enabled set, rewrites upstreams:{id} and
\* INCRs config:version; delete_route deletes both keys and INCRs
pipeline_execute(call) ==
    IF call.op = "set"
    THEN /\ hot' = [hot EXCEPT ![call.id] = [route |-> call.row, upstreams |-> call.row.upstreams]]
         /\ cache' = [version |-> cache.version + 1,
                      host |-> cache.host \cup {<<call.row.host, call.id>>},
                      enabled |-> IF call.row.enabled THEN cache.enabled \cup {call.id}
                                                      ELSE cache.enabled \ {call.id}]
    ELSE /\ hot' = [hot EXCEPT ![call.id] = NoKeys]
         /\ cache' = [cache EXCEPT !.version = @ + 1]

\* `await pipe.execute()`: it succeeds and the call returns, or the cache is
\* unreachable and the call raises what the client raised
registry_pipeline(k, ok) ==
    /\ registry_calls[k].pc = "committed"
    /\ IF ok
       THEN /\ pipeline_execute(registry_calls[k])
            /\ registry_calls' = [registry_calls EXCEPT ![k].pc = "returned"]
       ELSE /\ registry_calls' = [registry_calls EXCEPT ![k].pc = "raised"]
            /\ UNCHANGED <<cache, hot>>
    /\ UNCHANGED <<routes, registry_others>>

MirrorNext ==
    \/ \E k \in RegistryCalls, id \in MirrorIds, row \in MirrorRows : set_route_commit(k, id, row)
    \/ \E k \in RegistryCalls, id \in MirrorIds : delete_route_commit(k, id)
    \/ \E k \in RegistryCalls, ok \in BOOLEAN : registry_pipeline(k, ok)

MirrorSpec == Init /\ [][MirrorNext]_vars

----------------------------------------------------------------------------
(* ACME Replay-Nonce.  _signed_request is called by every obtain_certificate *)
(* run; the runs of a REST request and of the renewal loop share the one    *)
(* ACMEClient and interleave at its awaits.                                  *)

SignedRequests == 1..MaxSignedRequests

nonces_others ==
    <<engine_vars, routes, cache, last_call, repos, hook, projects, acme, handles, resolved,
      mirror, nonces_rest>>

\* the request signs with nonce n and awaits the POST
sign(st, r, n, source) ==
    [st EXCEPT !.used[n] = @ + 1,
               !.requests[r] = [pc |-> "post", nonce |-> n, source |-> source]]

\* a _get_nonce that returns the cached nonce and leaves it cached
take_cached_keeping(st) == st

\* _get_nonce with a cached nonce: `self._nonce = None`
take_cached(st) == [st EXCEPT !.cached = 0]

\* _signed_request up to its first await: with a cached nonce, _get_nonce
\* returns it without suspending and the request is signed and posted;
\* without one, _get_nonce awaits HEAD newNonce
signed_request(r) ==
    /\ nonces.requests[r].pc = "idle"
    /\ nonces' = IF nonces.cached # 0
                 THEN sign(take_cached(nonces), r, nonces.cached, "cache")
                 ELSE [nonces EXCEPT !.requests[r].pc = "head"]
    /\ UNCHANGED nonces_others

\* the server answers HEAD newNonce with a new nonce (or the HEAD raises and
\* the request ends); the request is signed with it and posted
head_response(r, ok) ==
    /\ nonces.requests[r].pc = "head"
    /\ nonces' = IF ok
                 THEN sign([nonces EXCEPT !.issued = @ + 1], r, nonces.issued + 1, "head")
                 ELSE [nonces EXCEPT !.requests[r].pc = "raised"]
    /\ UNCHANGED nonces_others

\* the POST is answered: a Replay-Nonce header, when there is one, becomes
\* self._nonce
post_response(r, has_nonce) ==
    /\ nonces.requests[r].pc = "post"
    /\ nonces' = IF has_nonce
                 THEN [nonces EXCEPT !.issued = @ + 1, !.cached = nonces.issued + 1,
                                     !.requests[r].pc = "returned"]
                 ELSE [nonces EXCEPT !.requests[r].pc = "returned"]
    /\ UNCHANGED nonces_others

NonceNext ==
    \/ \E r \in SignedRequests : signed_request(r)
    \/ \E r \in SignedRequests, ok \in BOOLEAN : head_response(r, ok)
    \/ \E r \in SignedRequests, h \in BOOLEAN : post_response(r, h)

NonceSpec == Init /\ [][NonceNext]_vars

----------------------------------------------------------------------------
(* Concurrent webhook deliveries.  The handlers are written against the     *)
(* Registry interface of registry.py; each request runs as its own task and *)
(* the tasks interleave at the awaits of the registry calls.  The           *)
(* repository here has no webhook_secret, so every delivery is authentic    *)
(* for each of the three handlers.                                          *)

Deliveries == 1..MaxDeliveries

deliveries_others ==
    <<engine_vars, routes, cache, last_call, hook, projects, acme, handles, resolved, mirror,
      deliveries_rest>>

\* a delivery for the registered repository and branch arrives: the handler
\* awaits get_git_repo_by_url and goes on with the object it returned; not
\* registered, disabled and `repo.last_commit == commit` answer `ignored`
webhook_lookup(d, commit) ==
    /\ deliveries[d].pc = "idle"
    /\ \A j \in Deliveries : j < d => deliveries[j].pc # "idle"
    /\ deliveries' = [deliveries EXCEPT ![d] =
            IF ~repos.exists \/ ~repos.enabled \/ repos.last_commit = commit
            THEN [pc |-> "answered", commit |-> commit, seen |-> repos.last_commit,
                  answer |-> "ignored", emitted |-> 0]
            ELSE [pc |-> "update", commit |-> commit, seen |-> repos.last_commit,
                  answer |-> "none", emitted |-> 0]]
    /\ UNCHANGED <<repos, deliveries_others>>

\* _trigger_deploy: `await update_git_repo_commit(repo.id, commit)`
webhook_update_commit(d) ==
    /\ deliveries[d].pc = "update"
    /\ repos' = IF repos.exists
                THEN [repos EXCEPT !.last_commit = deliveries[d].commit, !.last_deploy_at = d]
                ELSE repos
    /\ deliveries' = [deliveries EXCEPT ![d].pc = "emit"]
    /\ UNCHANGED deliveries_others

\* _trigger_deploy: `await emit("webhook_received", ...)`, answer `accepted`
webhook_emit(d) ==
    /\ deliveries[d].pc = "emit"
    /\ deliveries' = [deliveries EXCEPT ![d].pc = "answered", ![d].answer = "accepted",
                                        ![d].emitted = 1]
    /\ UNCHANGED <<repos, deliveries_others>>

DeliveryNext ==
    \/ create_repo("")
    \/ \E e \in BOOLEAN : update_repo("", e)
    \/ \E d \in Deliveries, c \in Commits \ {""} : webhook_lookup(d, c)
    \/ \E d \in Deliveries : webhook_update_commit(d)
    \/ \E d \in Deliveries : webhook_emit(d)

DeliverySpec == Init /\ [][DeliveryNext]_vars

----------------------------------------------------------------------------
(* Claims *)

TasksOf(a) == {t \in Tasks : tasks[t].pc # "idle" /\ tasks[t].app = a}

CidsOf(t) == {c \in Cids : c[1] = t}

\* C1: no two invocations of deploy() or rollback() for the same application
\* are assigned the same version.
C1_VersionsNeverShared ==
    \A t1, t2 \in Tasks :
        (t1 # t2 /\ tasks[t1].app = tasks[t2].app
            /\ tasks[t1].version # 0 /\ tasks[t2].version # 0)
        => tasks[t1].version # tasks[t2].version

\* C2: for every application the versions of its Deployment rows are exactly
\* 1..n for some n >= 0: the first is 1 and none is skipped.
C2_VersionsArePrefix ==
    \A a \in Apps : ExistingVersions(a) = 1..Cardinality(ExistingVersions(a))

\* two Deployment rows of one application, the second written by rollback()
C2_Witness ==
    \E a \in Apps, t \in Tasks :
        /\ ExistingVersions(a) = {1, 2}
        /\ tasks[t].app = a /\ tasks[t].via = "rollback" /\ tasks[t].pc = "done"
        /\ tasks[t].version = 2

\* C3: once two deploys of one application have both finished, the
\* Application's container_ids are those of exactly one running Deployment,
\* those containers run, and every container of the other deploy is gone.
C3_ConcurrentDeploysConsistent ==
    \A a \in Apps :
        (/\ Cardinality(TasksOf(a)) = 2
         /\ \A t \in TasksOf(a) : tasks[t].via = "api" /\ tasks[t].pc = "done")
        => \E w \in TasksOf(a) :
              /\ apps[a].container_ids = tasks[w].new_container_ids
              /\ deployments[a][tasks[w].version].status = "running"
              /\ deployments[a][tasks[w].version].container_ids = apps[a].container_ids
              /\ \A c \in apps[a].container_ids : containers[c] = "running"
              /\ \A o \in TasksOf(a) \ {w} : \A c \in CidsOf(o) : ~Live(c)

\* C4: when a deploy attempt that raised has ended, its Deployment is `failed`
\* with non-empty logs and every container created for it is stopped and deleted.
C4_FailedDeployCleansUp ==
    \A t \in Tasks :
        tasks[t].pc = "failed"
        => /\ deployments[tasks[t].app][tasks[t].version].status = "failed"
           /\ deployments[tasks[t].app][tasks[t].version].logs
           /\ \A c \in CidsOf(t) : ~Live(c)

\* the step that ends the except block of _run_deploy
EndsFailed(t) == tasks[t].pc = "fail" /\ tasks'[t].pc = "failed"

\* C5: a failed deploy attempt leaves Application.container_ids and
\* Application.image as they were before the attempt, the old containers running.
C5_FailedDeployKeepsContainerSet ==
    [][\A t \in Tasks :
        (EndsFailed(t) /\ tasks[t].pre.exists)
        => /\ apps'[tasks[t].app].container_ids = tasks[t].pre.container_ids
           /\ apps'[tasks[t].app].image = tasks[t].pre.image
           /\ \A c \in tasks[t].pre.container_ids : containers'[c] = "running"]_vars

\* C6: from the start of a deploy attempt that fails until its new containers
\* are cleaned up, the routes of the application's host are as before the attempt.
C6_FailedDeployLeavesRoutes ==
    \A t \in Tasks :
        tasks[t].pc = "fail"
        => HostRoutes(Domain(tasks[t].app)) = tasks[t].pre_routes

\* C7: the Application's status after a failed attempt equals its status
\* before the attempt.
C7_FailedDeployKeepsStatus ==
    [][\A t \in Tasks :
        (EndsFailed(t) /\ tasks[t].pre.exists)
        => apps'[tasks[t].app].status = tasks[t].pre.status]_vars

\* C8: when _run_deploy begins stopping the old containers,
\* Application.container_ids names the new containers and the upstreams of the
\* Route "app-{app.id}" are exactly the new containers.
C8_CutoverBeforeStopOld ==
    \A t \in Tasks :
        tasks[t].pc = "stop_old"
        => /\ apps[tasks[t].app].container_ids = tasks[t].new_container_ids
           /\ routes[AppRouteId(tasks[t].app)].exists
           /\ routes[AppRouteId(tasks[t].app)].upstreams = tasks[t].new_container_ids

\* C9: when a successful redeploy ends, the containers the application ran on
\* before it are stopped and removed, whichever entry triggered the redeploy.
C9_RedeployStopsPrevious ==
    [][\A t \in Tasks :
        (tasks[t].pc = "stop_old" /\ tasks'[t].pc = "done")
        => \A c \in tasks[t].pre.container_ids : containers'[c] # "running"]_vars

\* the depends_on graph of a manifest, restricted to its own services
DependsOn(c) ==
    {e \in Range(c.services) \X Range(c.services) : e[2] \in Range(c.depends_on[e[1]])}

RECURSIVE Reaches(_, _, _, _)
Reaches(c, x, y, n) ==
    \/ <<x, y>> \in DependsOn(c)
    \/ n > 0 /\ \E z \in Range(c.services) : <<x, z>> \in DependsOn(c) /\ Reaches(c, z, y, n - 1)

HasCycle(c) == \E x \in Range(c.services) : Reaches(c, x, x, Len(c.services))

\* C10: deploy_from_config of a manifest whose depends_on graph has a cycle
\* creates no Deployment record and launches no container.
C10_CyclicPlanRejected ==
    \A t \in Tasks :
        (tasks[t].via = "config" /\ HasCycle(Configs[tasks[t].cfg]))
        => /\ tasks[t].pc \in {"read", "write"}
           /\ \A c \in CidsOf(t) : containers[c] = "none"

\* the invocation that deploys service d for the same deploy_from_config call
\* as invocation t (the plan deploys its services in consecutive invocations)
PlanTaskOf(t, d) ==
    {u \in Tasks : /\ u < t
                   /\ tasks[u].via = "config"
                   /\ tasks[u].cfg = tasks[t].cfg
                   /\ tasks[u].app = d}

\* C11: within one deploy_from_config plan (of an acyclic manifest) no
\* container of an application exists before the deployment of every service
\* it depends on is `running`.
C11_DependentWaitsForDependency ==
    \A t \in Tasks :
        (/\ tasks[t].via = "config"
         /\ ~HasCycle(Configs[tasks[t].cfg])
         /\ \E c \in CidsOf(t) : containers[c] # "none")
        => \A d \in Range(Configs[tasks[t].cfg].depends_on[tasks[t].app])
                    \cap Range(Configs[tasks[t].cfg].services) :
              \E u \in PlanTaskOf(t, d) :
                  deployments[d][tasks[u].version].status = "running"

\* no deploy() or rollback() invocation of the application is under way
Quiet(a) == TasksOf(a) \cap InFlight = {}

\* C12: whenever an enabled Route "app-{a}" exists and no deploy of a is in
\* progress, its upstreams are exactly the containers in
\* Application(a).container_ids.
C12_RouteUpstreamsMatchApp ==
    \A a \in Apps :
        (/\ apps[a].exists
         /\ Quiet(a)
         /\ routes[AppRouteId(a)].exists
         /\ routes[AppRouteId(a)].enabled)
        => routes[AppRouteId(a)].upstreams = apps[a].container_ids

\* C13: whenever Application.status is `running`, every container in
\* Application.container_ids exists in the runtime and runs.
C13_RunningAppHasRunningContainers ==
    \A a \in Apps :
        apps[a].status = "running"
        => \A c \in apps[a].container_ids : containers[c] = "running"

\* the versions of the application's Deployment rows whose status is running
RunningVersions(a) == {v \in ExistingVersions(a) : deployments[a][v].status = "running"}

\* the container_ids of the highest-version running Deployment, none if there is none
LastRunningContainers(a) ==
    IF RunningVersions(a) = {} THEN {}
    ELSE deployments[a][Max(RunningVersions(a))].container_ids

\* C14: whenever no deploy of the application is in flight,
\* Application.container_ids equals the container_ids of its highest-version
\* running Deployment (empty if there is none).
C14_ContainerIdsOfLastRunning ==
    \A a \in Apps :
        (apps[a].exists /\ Quiet(a))
        => apps[a].container_ids = LastRunningContainers(a)

\* the REST call made in this step
RouteCall(op) == last_call'.n # last_call.n /\ last_call'.op = op

RepeatsSetRoute ==
    /\ RouteCall("set") /\ last_call.op = "set"
    /\ last_call'.id = last_call.id /\ last_call'.row = last_call.row

\* C16: repeating set_route(r) with an identical route leaves the row
\* unchanged and increments config:version at most once across the two calls.
C16_RepeatedSetRouteOneIncrement ==
    [][RepeatsSetRoute
        => /\ routes' = routes
           /\ cache'.version <= last_call.before + 1]_vars

\* C17: every id in a per-host index set or in the enabled set of the hot
\* cache refers to an existing route (delete_route removes the id from both).
C17_IndexSetsHoldExistingRoutes ==
    /\ \A e \in cache.host : routes[e[2]].exists
    /\ \A id \in cache.enabled : routes[id].exists

\* this step answers a delivery for the registered, enabled repository
DeliveryToRepo ==
    /\ hook'.n # hook.n
    /\ repos.exists /\ repos.enabled /\ hook'.url = RepoUrl

\* the delivery carries what its provider's check asks for
Authentic ==
    \/ repos.webhook_secret = ""
    \/ hook'.provider = "gitea"
    \/ hook'.provider = "github" /\ hook'.credential = Hmac(repos.webhook_secret, "raw")
    \/ hook'.provider = "gitlab" /\ hook'.credential = Token(repos.webhook_secret)

\* the delivery changed no stored state, emitted no event, started no deploy
NoEffect ==
    /\ repos' = repos
    /\ hook'.emitted = hook.emitted
    /\ hook'.repo_tasks = hook.repo_tasks

\* C18: a webhook whose commit equals the registered repository's last_commit
\* is answered `ignored`, emits no event, starts no deploy, changes no state.
C18_SameCommitIgnored ==
    [][(DeliveryToRepo /\ Authentic /\ hook'.commit = repos.last_commit)
        => (hook'.answer = "ignored" /\ NoEffect)]_vars

\* C19: every webhook with a new commit for a registered, enabled,
\* authenticated repository sets last_commit to that commit and starts exactly
\* one deploy_from_repo, through one webhook_received event.
C19_AcceptedWebhookDeploysOnce ==
    [][(DeliveryToRepo /\ Authentic /\ hook'.commit # repos.last_commit)
        => /\ repos'.last_commit = hook'.commit
           /\ hook'.emitted = hook.emitted + 1
           /\ hook'.repo_tasks = hook.repo_tasks + 1]_vars

\* C20: a GitHub webhook for a repository with a non-empty webhook_secret is
\* accepted if and only if its signature is "sha256=" + HMAC-SHA256(secret,
\* payload); otherwise it is rejected without any effect.
C20_GithubSignatureDecides ==
    [][(/\ DeliveryToRepo /\ hook'.provider = "github"
        /\ repos.webhook_secret # ""
        /\ hook'.commit # repos.last_commit)
        => IF hook'.credential = Hmac(repos.webhook_secret, "raw")
           THEN hook'.answer = "accepted"
           ELSE hook'.answer # "accepted" /\ NoEffect]_vars

\* the step in which rollback() returns None
ReturnsNone(t) == tasks[t].pc = "idle" /\ tasks'[t].pc = "not_found"

\* C21: rollback(app, target_version) goes ahead for every target version for
\* which the application has a Deployment with an image, however many
\* deployments were made since, and returns None only when there is no such
\* Deployment; when it has finished, the new Deployment has a new version, is
\* `running` and carries the target's image.
C21_RollbackFindsEveryTarget ==
    /\ [][\A t \in Tasks :
            ReturnsNone(t)
            => LET row == deployments[tasks'[t].app][tasks'[t].target]
               IN  /\ ~(row.status # "none" /\ row.image # NoImage)
                   /\ UNCHANGED <<apps, deployments, routes, containers>>]_vars
    /\ [](\A t \in Tasks :
            (tasks[t].via = "rollback" /\ tasks[t].pc = "done")
            => LET a == tasks[t].app
               IN  /\ deployments[a][tasks[t].version].status = "running"
                   /\ deployments[a][tasks[t].version].image = deployments[a][tasks[t].target].image
                   /\ tasks[t].version > tasks[t].target)

\* C22: when a rollback has finished, the containers that served the
\* application before it are stopped and removed.
C22_RollbackRemovesPreviousReplicas ==
    \A t \in Tasks :
        (tasks[t].via = "rollback" /\ tasks[t].pc = "done")
        => \A c \in tasks[t].pre.container_ids \ tasks[t].run_ids : ~Live(c)

\* C23: once DELETE /projects/{id} has returned, no Application of the
\* project and no Route `app-{id}` of its applications exists, also when a
\* deploy of one of them was in flight when the delete was issued.
C23_DeletedProjectLeavesNothing ==
    projects.del = "returned"
    => \A a \in Apps : ~apps[a].exists /\ ~routes[AppRouteId(a)].exists

\* C24: when the HTTP-01 challenge is reported invalid, or is not valid after
\* 30 polls, obtain_certificate has aborted with the token removed from the
\* challenge store, no certificate or key file written and the Certificate
\* record as it was.
C24_FailedChallengeAborts ==
    acme.outcome \in {"challenge_invalid", "challenge_timeout"}
    => /\ acme.pc = "idle"
       /\ acme.n \notin acme.challenges
       /\ acme.now = acme.pre
       /\ acme.outcome = "challenge_timeout" => acme.polls = PollLimit

\* a reissue gives up after the thirtieth poll of its challenge
C24_Witness ==
    /\ acme.outcome = "challenge_timeout"
    /\ acme.polls = PollLimit
    /\ acme.pre.record = 1
    /\ acme.n = 2

\* C25: whenever a reissue has ended, by returning or by an exception or
\* cancellation, the domain's certificate file, key file and Certificate
\* record are all the previous ones or all the new ones.
C25_ReissueAllOrNothing ==
    (acme.pc = "idle" /\ acme.pre.record > 0)
    => \/ acme.now = acme.pre
       \/ acme.now = [cert_file |-> acme.n, key_file |-> acme.n, record |-> acme.n]

\* C26: after DeploymentEngine.stop() has returned, every _run_deploy task
\* that was running when it was called has been cancelled (or has ended), also
\* when several deploys were registered under one Deployment id; the
\* containers they created are left as they are.
C26_StopCancelsEveryDeployTask ==
    handles.stopped => \A t \in handles.at_stop : tasks[t].pc \in Terminal

\* the deploy has had a healthcheck round in which every new replica returned 0
HealthyRound(t) ==
    tasks[t].new_container_ids # {} /\ tasks[t].healthy_ids = tasks[t].new_container_ids

\* C27: Application.container_ids and Route app-{id} refer to containers
\* launched by a deploy only if the application declares no healthcheck or
\* the deploy has had a round in which every new replica returned 0.
C27_SwitchOnlyAfterHealthyRound ==
    \A t \in Tasks :
        LET a == tasks[t].app
        IN  (/\ tasks[t].via \in {"api", "config"}
             /\ HasHealthcheck(a)
             /\ \/ apps[a].container_ids \cap tasks[t].run_ids # {}
                \/ routes[AppRouteId(a)].upstreams \cap tasks[t].run_ids # {})
            => HealthyRound(t)

\* a deploy of the application with a healthcheck has switched the
\* Application and the route to its two replicas
C27_Witness ==
    \E t \in Tasks :
        /\ tasks[t].via = "api" /\ tasks[t].pc = "done" /\ HasHealthcheck(tasks[t].app)
        /\ Cardinality(tasks[t].new_container_ids) = 2
        /\ apps[tasks[t].app].container_ids = tasks[t].new_container_ids
        /\ routes[AppRouteId(tasks[t].app)].upstreams = tasks[t].new_container_ids

\* C28: for a plan without a dependency cycle, _resolve_deploy_order returns
\* every application of the plan exactly once, each after every application
\* of the plan it depends on.
C28_OrderIsTopological ==
    (resolved.done /\ ~HasCycle(resolved.input))
    => LET c == resolved.input
           o == resolved.order
       IN  /\ Len(o) = Len(c.services)
           /\ Range(o) = Range(c.services)
           /\ \A i \in 1..Len(o) :
                \A d \in Range(c.depends_on[o[i]]) \cap Range(c.services) :
                    \E j \in 1..(i - 1) : o[j] = d

\* a chain listed against its dependencies comes back reversed
C28_Witness ==
    /\ resolved.done
    /\ resolved.input.services = <<"a", "b", "c">>
    /\ resolved.input.depends_on["a"] = <<"b">>
    /\ resolved.input.depends_on["b"] = <<"c">>
    /\ resolved.input.depends_on["c"] = <<>>
    /\ resolved.order = <<"c", "b", "a">>

\* C29: every container launched for version v of an application, by deploy
\* or by rollback, carries v in its name, and two launches for one application
\* never use the same name.
C29_ContainerNamesAreVersioned ==
    /\ \A c \in Cids :
            c \in tasks[c[1]].run_ids
            => ContainerName(c[1], c[2]).suffix = tasks[c[1]].version
    /\ \A c1, c2 \in Cids :
            (c1[1] # c2[1] /\ c1 \in tasks[c1[1]].run_ids /\ c2 \in tasks[c2[1]].run_ids)
            => ContainerName(c1[1], c1[2]) # ContainerName(c2[1], c2[2])

\* the provider takes a stop, die or kill event off the stream
ProcessesExit ==
    /\ events # <<>>
    /\ Head(events).action # "start"
    /\ events' = Tail(events)

\* C30: when the provider processes a stop, die or kill event of a container
\* it deletes the Routes "{short_id}-*" and no other Route, and removes the
\* container from the registry's container mirror.
C30_ExitPurgesRoutesAndMirror ==
    [][ProcessesExit
       => LET c == Head(events).cid
          IN  /\ \A r \in RouteIds :
                    routes'[r] = IF r.kind = "ctr" /\ r.cid = c THEN NoRoute ELSE routes[r]
              /\ c \notin mirror']_vars

\* the routes the provider derives from container c
ProviderRoutes(c) == {r \in RouteIds : r.kind = "ctr" /\ r.cid = c /\ routes[r].exists}

\* C31: once the provider's startup sync has run and every runtime event has
\* been processed, the provider-derived Routes are exactly those of the
\* running containers: the Route "{short_id}-{router}" of each running
\* container and none for a container that is not running.
C31_ProviderRoutesMatchRunning ==
    (docker_provider.pc = "watching" /\ events = <<>>)
    => \A c \in Cids :
          ProviderRoutes(c) = IF containers[c] = "running"
                              THEN {CtrRouteId(c, AppOfCid(c))} ELSE {}

\* C32: emit(name, payload) invokes every handler registered for name exactly
\* once, in registration order; a handler that raises does not prevent the
\* later handlers from running, and its exception never reaches the emitter.
C32_EmitInvokesEveryHandler ==
    /\ event_bus.result # "raised"
    /\ event_bus.result = "returned" => event_bus.invoked = event_bus.listed

\* an emit over three handlers has returned, and its first handler raised
C32_Witness ==
    /\ event_bus.result = "returned"
    /\ Len(event_bus.invoked) = MaxHandlers
    /\ 1 \in event_bus.raised_at

C34_MirrorFailureIsOnlyLogged ==
    /\ [](\A k \in RegistryCalls : registry_calls[k].pc # "raised")
    /\ [][\A k \in RegistryCalls :
            (registry_calls[k].pc = "committed" /\ registry_calls'[k].pc # "committed")
            => routes'[registry_calls[k].id] = routes[registry_calls[k].id]]_vars

\* every set_route and delete_route call made has returned
AllReturned == \A k \in RegistryCalls : registry_calls[k].pc \in {"idle", "returned"}

\* C37: once all concurrent set_route and delete_route calls have completed,
\* the keys routes:{id} and upstreams:{id} describe the durable row of id, and
\* are absent exactly when the row is absent.
C37_MirrorFollowsCommitOrder ==
    AllReturned
    => \A id \in RouteIds :
          /\ hot[id].route = routes[id]
          /\ hot[id].upstreams = routes[id].upstreams

\* the call is a set_route that gives an existing route another host
ChangesHost ==
    /\ RouteCall("set")
    /\ routes[last_call'.id].exists
    /\ routes[last_call'.id].host # last_call'.row.host

\* C40: the set routes:index:host:{h} holds exactly the ids of the routes whose
\* current host is h: every route's id is in the set of its host, and after
\* set_route has changed the host of an existing route the id is no longer in
\* the old host's set.
C40_HostIndexFollowsHostChange ==
    /\ [](\A id \in RouteIds : routes[id].exists => <<routes[id].host, id>> \in cache.host)
    /\ [][ChangesHost => <<routes[last_call'.id].host, last_call'.id>> \notin cache'.host]_vars

\* C35: no Replay-Nonce value is used in more than one signed ACME request,
\* also when the requests of two obtain_certificate runs interleave: each
\* signed request takes the cached nonce and clears it, or fetches a new one
\* when none is cached.
C35_NonceUsedAtMostOnce ==
    /\ \A n \in DOMAIN nonces.used : nonces.used[n] <= 1
    /\ \A r \in SignedRequests :
          nonces.requests[r].source = "cache" => nonces.cached # nonces.requests[r].nonce

\* two signed requests are in flight at once, one signed with the cached nonce
\* and one with a nonce it fetched, after an earlier request has returned
C35_Witness ==
    \E r1, r2, r3 \in SignedRequests :
        /\ nonces.requests[r1].pc = "post" /\ nonces.requests[r1].source = "cache"
        /\ nonces.requests[r2].pc = "post" /\ nonces.requests[r2].source = "head"
        /\ nonces.requests[r3].pc = "returned"

\* the invocations at work on the Deployment row of application a, version v
WorkingOn(a, v) == {t \in InFlight : tasks[t].app = a /\ tasks[t].version = v}

\* C36: every Deployment reaches `running` or `failed` once its deploy task or
\* rollback call has ended, however it ended: no Deployment is `pending`,
\* `building` or `deploying` with no task or call working on it.
C36_NoDeploymentLeftInProgress ==
    \A a \in Apps, v \in Versions :
        deployments[a][v].status \in {"pending", "building", "deploying"}
        => WorkingOn(a, v) # {}

\* the deliveries received so far that carry commit c
DeliveriesOf(c) == {d \in Deliveries : deliveries[d].pc # "idle" /\ deliveries[d].commit = c}

\* C38: for a given repository and commit, in any interleaving of concurrent
\* deliveries, at most one delivery is accepted and at most one
\* webhook_received event is emitted; every other delivery of the commit is
\* answered `ignored`.  (Stated for deliveries that all carry the same commit.)
C38_OneAcceptedPerCommit ==
    \A c \in Commits :
        (\A d \in Deliveries : deliveries[d].pc # "idle" => deliveries[d].commit = c)
        => /\ Cardinality({d \in DeliveriesOf(c) : deliveries[d].emitted > 0}) <= 1
           /\ Cardinality({d \in DeliveriesOf(c) : deliveries[d].pc = "answered"
                                                   /\ deliveries[d].answer # "ignored"}) <= 1

\* the enabled routes of a virtual host; every route of the model has the
\* default path "/", so these are the enabled routes of (h, "/")
EnabledRoutes(h) == {r \in RouteIds : routes[r].exists /\ routes[r].enabled /\ routes[r].host = h}

\* C39: at most one enabled Route exists per (host, path) at any time; in
\* particular the engine's Route "app-{app.id}" and the Routes
\* "{short_id}-{app.id}" the provider derives from the labels of the same
\* application's containers are never enabled together for one host and path.
C39_OneEnabledRoutePerHost ==
    \A h \in Hosts : Cardinality(EnabledRoutes(h)) <= 1

====
